---- MODULE Spec2Model ----
(***************************************************************************)
(* A model of the vert-tagextract extraction engine: the library          *)
(* orchestrator (library.ExtractData), the extractor driver               *)
(* (proc.TTExtractor), the attribute accumulators, the self-join column   *)
(* generators and the database Writer.                                    *)
(*                                                                         *)
(* Strings whose content matters are sequences of one-character strings;  *)
(* values of map[string]interface{} are tagged (Str / Int).               *)
(***************************************************************************)
EXTENDS Integers, Sequences, FiniteSets, TLC

\* ------------------------------------------------------------------ bounds

\* lines (events) of one vertical file
MaxLines == 4
\* lines of one vertical file when the whole library call is explored
MaxLibLines == 1
\* lines of one vertical file when a column generator is configured
MaxGenLines == 3
\* input files of one library call
MaxFiles == 2
\* largest configured maxNumErrors
MaxErrBudget == 1
\* lines of one vertical file when every line is a recoverable error
MaxBurstLines == 12
\* lines of one vertical file when bigrams are counted
MaxNgramLines == 5
\* lines of one vertical file whose ARF is calculated
MaxArfLines == 5
\* longest run of the characters e, n and : at the start of a value handed to
\* a column generator on its own
MaxPrefixLen == 3
\* files handed to a multi-file scanner, and lines of one such file
MaxScanFiles == 3
MaxScanLines == 2
\* largest dictionary number in an n-gram whose key is computed on its own
MaxKeyId == 11
\* length of such an n-gram
MaxKeyLen == 2

\* capacity of a per-file sub-status channel
SubChanCap == 10
\* a status event is published on every line divisible by this
StatusEachNth == 1000

\* ------------------------------------------------------------------ data

StructNames == {"doc", "p"}

\* a string and an int held in a map[string]interface{}
StrV(s) == [t |-> "str", s |-> s, i |-> 0]
IntV(n) == [t |-> "int", s |-> <<>>, i |-> n]

\* attribute values seen in the input: a one-character and a three-character one
ShortVal == <<"7">>
LongVal == <<"e", "n", "b">>

NoAttrs == [a \in {} |-> <<>>]
IdAttr(v) == [a \in {"id"} |-> v]

CorpusID == <<"c">>

\* errors are strings, "" is nil
NoErr == ""
ErrParser == "vertigo: parsing error"
\* the messages of the accumulators' errors, with their arguments
ErrNested(name, top) ==
    "Stack-based processing error. Encountered element: [" \o name \o "], stack top: ["
        \o top \o "]"
ErrSelfRecursion(hint, prevHint) ==
    "Self-recursion not allowed, element " \o hint \o " in " \o prevHint
ErrMissingOpen(name) == "Cannot close element [" \o name \o "] - opening not found"
ErrNonString == "Column generator function cannot accept non-string values"
ErrUnknownGenerator == "Unknown aligned column generator function"
ErrRecovered == "recovered panic"
ErrWriter == "writer failure"
ErrorTooManyParsingErrors == "too many parsing errors"
ErrStopSignal == "received stop signal"
ErrNotInitialized == "currAtomAttrs not initialized"
Panic == "panic: nil pointer dereference"

\* the name of a structural attribute's column, fmt.Sprintf("%s_%s", s, k)
ColName(s, k) ==
    CASE s = "doc" /\ k = "id" -> "doc_id"
      [] s = "p" /\ k = "id" -> "p_id"
      [] OTHER -> "other"


\* f with key k set to v (a Go map assignment)
MapPut(f, k, v) == [x \in DOMAIN f \cup {k} |-> IF x = k THEN v ELSE f[x]]
MapDel(f, k) == [x \in DOMAIN f \ {k} |-> f[x]]
EmptyMap == [x \in {} |-> 0]

\* ------------------------------------------------------------------ accumulators

AccumItem(st, line) == [elm |-> st, lineOpen |-> line]

\* an attribute value, a sequence of characters, as a Go string
RECURSIVE JoinChars(_)
JoinChars(v) == IF v = <<>> THEN "" ELSE Head(v) \o JoinChars(Tail(v))

\* the tag as an error message shows it: with the first of the identifying
\* attributes it carries, or bare
getElementHintRepr(v) ==
    LET identAttrs == <<"id", "name", "ident", "inst">>
        found == {i \in DOMAIN identAttrs : identAttrs[i] \in DOMAIN v.attrs}
    IN IF found = {} THEN "<" \o v.name \o ">"
       ELSE LET a == identAttrs[CHOOSE i \in found : \A j \in found : i <= j]
            IN "<" \o v.name \o " " \o a \o "=\"" \o JoinChars(v.attrs[a]) \o "\">"

\* the strict accumulator's end that takes the top element off whatever its name
StackEndAnyTop(s, line, name) ==
    IF s = <<>>
    THEN [acc |-> s, err |-> Panic, item |-> AccumItem([name |-> name], line)]
    ELSE [acc |-> SubSeq(s, 1, Len(s) - 1),
          err |-> IF s[Len(s)].elm.name # name THEN ErrNested(name, s[Len(s)].elm.name) ELSE NoErr,
          item |-> s[Len(s)]]

\* ForEachAttr visiting the stack from its bottom
StackVisitBottomUp(s) == s

\* the set accumulator's begin that stores the new element over the open one
SetBeginOverwrite(m, line, st) ==
    [acc |-> MapPut(m, st.name, AccumItem(st, line)),
     err |-> IF st.name \in DOMAIN m
             THEN ErrSelfRecursion(getElementHintRepr(st), getElementHintRepr(m[st.name].elm))
             ELSE NoErr]

\* the set accumulator's end that forgets every open element
SetEndClear(m, line, name) ==
    IF name \in DOMAIN m
    THEN [acc |-> EmptyMap, err |-> NoErr, item |-> m[name]]
    ELSE [acc |-> m, err |-> ErrMissingOpen(name), item |-> AccumItem([name |-> name], line)]

\* the strict accumulator: the linked list lastItem/prev as a sequence whose
\* last element is lastItem
StackBegin(s, line, st) == [acc |-> Append(s, AccumItem(st, line)), err |-> NoErr]

StackEnd(s, line, name) ==
    IF s = <<>>
    THEN \* s.lastItem is nil: s.lastItem.value panics
         [acc |-> s, err |-> Panic, item |-> AccumItem([name |-> name], line)]
    ELSE IF s[Len(s)].elm.name # name
    THEN [acc |-> s, err |-> ErrNested(name, s[Len(s)].elm.name), item |-> s[Len(s)]]
    ELSE [acc |-> SubSeq(s, 1, Len(s) - 1), err |-> NoErr, item |-> s[Len(s)]]

\* the attributes ForEachAttr visits, in visiting order: top of the stack first
RECURSIVE StackVisit(_)
StackVisit(s) ==
    IF s = <<>> THEN <<>>
    ELSE <<s[Len(s)]>> \o StackVisit(SubSeq(s, 1, Len(s) - 1))

\* the set accumulator: elms, a map from structure name to the open element
SetBegin(m, line, st) ==
    IF st.name \in DOMAIN m
    THEN [acc |-> m,
          err |-> ErrSelfRecursion(getElementHintRepr(st), getElementHintRepr(m[st.name].elm))]
    ELSE [acc |-> MapPut(m, st.name, AccumItem(st, line)), err |-> NoErr]

SetEnd(m, line, name) ==
    IF name \in DOMAIN m
    THEN [acc |-> MapDel(m, name), err |-> NoErr, item |-> m[name]]
    ELSE [acc |-> m, err |-> ErrMissingOpen(name), item |-> AccumItem([name |-> name], line)]

\* attrAccum is [stack |-> the stack, elms |-> the map]; conf.stackStructEval
\* says which of the two NewTTExtractor installed
NewAccum == [stack |-> <<>>, elms |-> EmptyMap]

AccumBegin(strict, a, line, st) ==
    IF strict
    THEN LET r == StackBegin(a.stack, line, st) IN [acc |-> [a EXCEPT !.stack = r.acc], err |-> r.err]
    ELSE LET r == SetBegin(a.elms, line, st) IN [acc |-> [a EXCEPT !.elms = r.acc], err |-> r.err]

AccumEnd(strict, a, line, name) ==
    IF strict
    THEN LET r == StackEnd(a.stack, line, name)
         IN [acc |-> [a EXCEPT !.stack = r.acc], err |-> r.err, item |-> r.item]
    ELSE LET r == SetEnd(a.elms, line, name)
         IN [acc |-> [a EXCEPT !.elms = r.acc], err |-> r.err, item |-> r.item]

\* ------------------------------------------------------------------ column generators

\* results of a generator: the identifier, the error and whether the call panicked
GenOk(ident) == [ident |-> ident, err |-> NoErr, panic |-> FALSE]
GenErr(e) == [ident |-> <<>>, err |-> e, panic |-> FALSE]
GenPanic == [ident |-> <<>>, err |-> NoErr, panic |-> TRUE]

\* vals and err of fetchStringVals: an absent or non-string value gives an
\* empty slice and an error
RECURSIVE fetchStringVals(_, _)
fetchStringVals(attrs, useAttrs) ==
    IF useAttrs = <<>> THEN [vals |-> <<>>, err |-> NoErr]
    ELSE LET a == Head(useAttrs)
         IN IF a \in DOMAIN attrs /\ attrs[a].t = "str"
            THEN LET rest == fetchStringVals(attrs, Tail(useAttrs))
                 IN IF rest.err # NoErr THEN rest
                    ELSE [vals |-> <<attrs[a].s>> \o rest.vals, err |-> NoErr]
            ELSE [vals |-> <<>>, err |-> ErrNonString]

\* strings.Join(vals, "_")
RECURSIVE JoinUnderscore(_)
JoinUnderscore(vals) ==
    IF vals = <<>> THEN <<>>
    ELSE IF Len(vals) = 1 THEN vals[1]
    ELSE vals[1] \o <<"_">> \o JoinUnderscore(Tail(vals))

\* intercorp cutting three characters
intercorpDropThree(attrs, useAttrs) ==
    LET r == fetchStringVals(attrs, useAttrs)
    IN IF r.vals = <<>> THEN GenPanic
       ELSE IF Len(r.vals[1]) < 3 THEN GenPanic
       ELSE [ident |-> SubSeq(r.vals[1], 4, Len(r.vals[1])), err |-> r.err, panic |-> FALSE]

\* vals[0][2:], evaluated before err is looked at: it panics when vals is empty
\* (index out of range) and when vals[0] is shorter than two characters
intercorp(attrs, useAttrs) ==
    LET r == fetchStringVals(attrs, useAttrs)
    IN IF r.vals = <<>> THEN GenPanic
       ELSE IF Len(r.vals[1]) < 2 THEN GenPanic
       ELSE [ident |-> SubSeq(r.vals[1], 3, Len(r.vals[1])), err |-> r.err, panic |-> FALSE]

empty(attrs, useAttrs) == GenOk(<<>>)

identity(attrs, useAttrs) ==
    LET r == fetchStringVals(attrs, useAttrs)
    IN IF r.err # NoErr THEN GenErr(r.err) ELSE GenOk(JoinUnderscore(r.vals))

FuncList == {"intercorp", "identity", "empty"}

\* GetFuncByName followed by the call of the function it returned
CallByName(fnName, attrs, useAttrs) ==
    CASE fnName = "intercorp" -> intercorp(attrs, useAttrs)
      [] fnName = "identity" -> identity(attrs, useAttrs)
      [] fnName = "empty" -> empty(attrs, useAttrs)
      [] OTHER -> GenErr(ErrUnknownGenerator)

\* the closure ExtractData hands to the extractor as colgenFn, without its
\* deferred recover()
ColgenFnNoRecover(selfJoin, attrs) == CallByName(selfJoin.generatorFn, attrs, selfJoin.argColumns)

\* the closure ExtractData hands to the extractor as colgenFn: a panic of the
\* generator is recovered into ("", error)
ColgenFn(selfJoin, attrs) ==
    LET r == CallByName(selfJoin.generatorFn, attrs, selfJoin.argColumns)
    IN IF r.panic THEN GenErr(ErrRecovered) ELSE r

\* SelfJoinConf.IsConfigured
IsConfigured(selfJoin) == selfJoin.generatorFn # ""

\* ------------------------------------------------------------------ extractor driver

\* Datetime is time.Now(): the model records that the field is filled in
Status(atoms, lines, err) ==
    [Datetime |-> "now", File |-> "", ProcessedAtoms |-> atoms, ProcessedLines |-> lines,
     Error |-> err]

\* currAtomAttrs: a nil map, or a map from column name to value
NilAttrs == [nil |-> TRUE, m |-> EmptyMap]
Attrs(m) == [nil |-> FALSE, m |-> m]

\* the state NewTTExtractor builds
NewTTExtractor ==
    [ atomCounter |-> 0,
      lineCounter |-> 0,
      errorCounter |-> 0,
      tokenInAtomCounter |-> 0,
      tokenCounter |-> 0,
      lastAtomOpenLine |-> -1,
      currAtomAttrs |-> NilAttrs,
      attrAccum |-> NewAccum,
      attrNames |-> {},
      valueDict |-> <<>>,
      currSentence |-> <<>>,
      colCounts |-> EmptyMap ]

\* what a callback hands back: the extractor's new state, the returned error,
\* the status events it sent and the rows it inserted
Res(t, ret, sent, rows) == [tte |-> t, ret |-> ret, sent |-> sent, rows |-> rows]

\* handleProcError reporting the line of the last event processed instead of
\* the line of the error
handleProcErrorStaleLine(c, t, lineNum, err) ==
    LET t1 == [t EXCEPT !.errorCounter = @ + 1]
    IN Res(t1,
           IF t1.errorCounter > c.maxNumErrors THEN ErrorTooManyParsingErrors ELSE NoErr,
           <<Status(t.atomCounter, t.lineCounter, err)>>, <<>>)

\* handleProcError with the budget compared by >= instead of >
handleProcErrorGE(c, t, lineNum, err) ==
    LET t1 == [t EXCEPT !.errorCounter = @ + 1]
    IN Res(t1,
           IF t1.errorCounter >= c.maxNumErrors THEN ErrorTooManyParsingErrors ELSE NoErr,
           <<Status(t.atomCounter, lineNum, err)>>, <<>>)

handleProcError(c, t, lineNum, err) ==
    LET t1 == [t EXCEPT !.errorCounter = @ + 1]
    IN Res(t1,
           IF t1.errorCounter > c.maxNumErrors THEN ErrorTooManyParsingErrors ELSE NoErr,
           <<Status(t.atomCounter, lineNum, err)>>, <<>>)

\* the status event published when line%1000 == 0
Progress(t, line) ==
    IF line % StatusEachNth = 0 THEN <<Status(t.atomCounter, line, NoErr)>> ELSE <<>>

\* WordDict.Add that gives every call a new number
WordDictAddAlways(d, word) == [dict |-> Append(d, word), id |-> Len(d) + 1]

\* WordDict: the words in the order of their first appearance; the number of
\* a word is its position, counted from 1
WordDictAdd(d, word) ==
    IF \E i \in DOMAIN d : d[i] = word
    THEN [dict |-> d, id |-> CHOOSE i \in DOMAIN d : d[i] = word]
    ELSE [dict |-> Append(d, word), id |-> Len(d) + 1]

WordDictGet(d, idx) == d[idx]

\* strings.Join(numbers, " ")
RECURSIVE JoinNumeric(_)
JoinNumeric(ids) ==
    IF ids = <<>> THEN ""
    ELSE IF Len(ids) = 1 THEN ToString(ids[1])
    ELSE ToString(ids[1]) \o " " \o JoinNumeric(Tail(ids))

\* strings.Join(parts, " ")
RECURSIVE JoinSpace(_)
JoinSpace(parts) ==
    IF parts = <<>> THEN ""
    ELSE IF Len(parts) = 1 THEN parts[1]
    ELSE parts[1] \o " " \o JoinSpace(Tail(parts))

\* the numbers of one column written one after the other with nothing between
RECURSIVE JoinTight(_)
JoinTight(ids) == IF ids = <<>> THEN "" ELSE ToString(ids[1]) \o JoinTight(Tail(ids))

\* columnNgramNumeric without the separator between the numbers
columnNgramTight(tokens, colIdx) == JoinTight([i \in DOMAIN tokens |-> tokens[i][colIdx]])

\* NgramCounter.columnNgramNumeric: tokens are vectors of numbers, one per column
columnNgramNumeric(tokens, colIdx) == JoinNumeric([i \in DOMAIN tokens |-> tokens[i][colIdx]])

\* NgramCounter.UniqueID(columns) of an n-gram of such vectors
UniqueIDOf(tokens, columns) ==
    JoinSpace([i \in DOMAIN columns |-> columnNgramNumeric(tokens, columns[i])])

\* NgramCounter.UniqueID over the one configured column; with no column
\* configured the identifier is empty
UniqueID(c, tokens) ==
    UniqueIDOf([i \in DOMAIN tokens |-> <<tokens[i]>>], IF c.vertColumns = 0 THEN <<>> ELSE <<1>>)

\* hasher.Write of several strings: the bytes follow one another
RECURSIVE WriteAll(_)
WriteAll(parts) == IF parts = <<>> THEN "" ELSE parts[1] \o WriteAll(Tail(parts))

\* NgramCounter.columnNgram: the words of one column joined by spaces
columnNgram(tokens, colIdx, wd) ==
    JoinSpace([i \in DOMAIN tokens |-> WordDictGet(wd, tokens[i][colIdx])])

\* TTExtractor.generateHashID: the SHA-1 digest of the column n-grams written
\* one after the other; the digest stands for the bytes written
generateHashIDOf(tokens, columns, wd) ==
    WriteAll([i \in DOMAIN columns |-> columnNgram(tokens, columns[i], wd)])

\* generateHashID over the one configured column
generateHashID(c, t, ng) ==
    generateHashIDOf([i \in DOMAIN ng.tokens |-> <<ng.tokens[i]>>],
                     IF c.vertColumns = 0 THEN <<>> ELSE <<1>>, t.valueDict)

\* NewNgramCounter and AddToken: a new entry with count 1
\* an entry has no ARF helper until the second pass meets it
NoARF == [has |-> FALSE]

NewNgramCounter(tokens) == [count |-> 1, tokens |-> tokens, arf |-> NoARF]

\* the first n entries of the sentence buffer
FirstN(s, n) == SubSeq(s, 1, n)

\* the last n entries of the sentence buffer
LastN(s, n) == SubSeq(s, Len(s) - n + 1, Len(s))

ProcToken(c, t, tk, line, perr) ==
    IF perr # NoErr THEN handleProcError(c, t, line, perr)
    ELSE
    LET added == IF c.vertColumns = 0 THEN [dict |-> t.valueDict, id |-> 0]
                 ELSE WordDictAdd(t.valueDict, tk.word)
        sent == Append(t.currSentence, added.id)
        ngram == NewNgramCounter(LastN(sent, c.ngramSize))
        key == UniqueID(c, ngram.tokens)
        counts == IF Len(sent) >= c.ngramSize
                  THEN IF key \in DOMAIN t.colCounts
                       THEN [t.colCounts EXCEPT ![key].count = @ + 1]
                       ELSE MapPut(t.colCounts, key, ngram)
                  ELSE t.colCounts
        t1 == [t EXCEPT !.lineCounter = line,
                        !.tokenInAtomCounter = @ + 1,
                        !.tokenCounter = tk.idx,
                        !.valueDict = added.dict,
                        !.currSentence = sent,
                        !.colCounts = counts]
    IN Res(t1, NoErr, Progress(t1, line), <<>>)

\* ------------------------------------------------------------------ ptcount.ARFCalculator

\* float64 values of the calculation, kept as exact fractions; a division by
\* zero gives NaN or an infinity as in IEEE 754
RECURSIVE Gcd(_, _)
Gcd(a, b) == IF b = 0 THEN a ELSE Gcd(b, a % b)

Float(n, d) ==
    LET g == Gcd(IF n < 0 THEN -n ELSE n, d) IN [k |-> "num", n |-> n \div g, d |-> d \div g]

NaN == [k |-> "NaN"]

FloatLess(a, b) == a.n * b.d < b.n * a.d

FloatAdd(a, b) == Float(a.n * b.d + b.n * a.d, a.d * b.d)

\* x / y of two finite values, y >= 0
FloatDiv(a, b) ==
    IF b.n = 0 THEN (IF a.n = 0 THEN NaN ELSE IF a.n > 0 THEN [k |-> "+Inf"] ELSE [k |-> "-Inf"])
    ELSE Float(a.n * b.d, a.d * b.n)

\* math.Round(x*1000) / 1000.0, math.Round going to the nearest integer with
\* halves away from zero
Round3(a) ==
    IF a.k # "num" THEN a
    ELSE LET x == Float(a.n * 1000, a.d)
         IN IF x.n >= 0 THEN Float((2 * x.n + x.d) \div (2 * x.d), 1000)
            ELSE Float(-((2 * (-x.n) + x.d) \div (2 * x.d)), 1000)

min(v1, v2) == IF FloatLess(v1, Float(v2, 1)) THEN v1 ELSE Float(v2, 1)

AddARF(cnt, tk) ==
    [cnt EXCEPT !.arf = [has |-> TRUE, ARF |-> Float(0, 1), PrevTokIdx |-> -1, FirstIdx |-> tk.idx]]

\* ARFCalculator.ProcToken: the parser's error is not looked at
ARFProcToken(c, numTokens, t, sent, tk) ==
    LET added == WordDictAdd(t.valueDict, tk.word)
        sent1 == Append(sent, added.id)
        ngram == NewNgramCounter(LastN(sent1, c.ngramSize))
        key == UniqueID(c, ngram.tokens)
        t1 == [t EXCEPT !.valueDict = added.dict]
    IN IF Len(sent1) < c.ngramSize
       THEN [tte |-> t1, sent |-> sent1, key |-> "", warned |-> FALSE]
       ELSE IF key \notin DOMAIN t.colCounts
       THEN [tte |-> t1, sent |-> sent1, key |-> key, warned |-> TRUE]
       ELSE LET cnt0 == t.colCounts[key]
                cnt1 == IF cnt0.arf.has THEN cnt0 ELSE AddARF(cnt0, tk)
                avg == FloatDiv(Float(numTokens, 1), Float(cnt1.count, 1))
                cnt2 == IF cnt1.arf.PrevTokIdx > -1
                        THEN [cnt1 EXCEPT !.arf.ARF =
                                 FloatAdd(@, min(avg, tk.idx - cnt1.arf.PrevTokIdx))]
                        ELSE cnt1
                cnt3 == [cnt2 EXCEPT !.arf.PrevTokIdx = tk.idx]
            IN [tte |-> [t1 EXCEPT !.colCounts[key] = cnt3], sent |-> sent1,
                key |-> key, warned |-> FALSE]

\* ARFCalculator.ProcStructClose: any closing tag named as the atom empties the mirror
ARFProcStructClose(c, sent, name, perr) ==
    [sent |-> IF name = c.atomStruct THEN <<>> ELSE sent, ret |-> perr]

\* the second ParseVerticalFile of Run: the same lines, handed to the
\* calculator until a callback returns an error; warned counts the n-grams
\* logged as not found, matched the lookups that found each entry
RECURSIVE ARFParse(_, _, _, _)
ARFParse(c, numTokens, s, events) ==
    IF events = <<>> \/ s.err # NoErr THEN s
    ELSE LET ev == Head(events)
             s1 == CASE ev.kind = "tok" ->
                          LET r == ARFProcToken(c, numTokens, s.tte, s.sent,
                                                [word |-> ev.name, idx |-> ev.idx])
                          IN [tte |-> r.tte, sent |-> r.sent, err |-> NoErr,
                              warned |-> s.warned + (IF r.warned THEN 1 ELSE 0),
                              matched |-> IF r.key = "" \/ r.warned THEN s.matched
                                          ELSE [k \in DOMAIN s.matched \cup {r.key} |->
                                                  (IF k \in DOMAIN s.matched THEN s.matched[k] ELSE 0)
                                                  + (IF k = r.key THEN 1 ELSE 0)]]
                     [] ev.kind = "open" -> [s EXCEPT !.err = ev.perr]
                     [] OTHER ->
                          LET r == ARFProcStructClose(c, s.sent, ev.name, ev.perr)
                          IN [s EXCEPT !.sent = r.sent, !.err = r.ret]
         IN ARFParse(c, numTokens, s1, Tail(events))

Finalize(numTokens, t) ==
    [t EXCEPT !.colCounts =
        [k \in DOMAIN t.colCounts |->
            LET val == t.colCounts[k]
            IN IF ~val.arf.has THEN val
               ELSE LET avgDist == FloatDiv(Float(numTokens, 1), Float(val.count, 1))
                        acc == FloatAdd(val.arf.ARF,
                                        min(avgDist, val.arf.FirstIdx + numTokens - val.arf.PrevTokIdx))
                    IN [val EXCEPT !.arf.ARF = Round3(FloatDiv(acc, avgDist))]]]

acceptAttr(c, structName, attrName) ==
    /\ structName \in DOMAIN c.structures
    /\ \E i \in DOMAIN c.structures[structName] : c.structures[structName][i] = attrName

\* g laid over f: the entries a later visit writes replace the earlier ones
Merge(f, g) == [x \in DOMAIN f \cup DOMAIN g |-> IF x \in DOMAIN g THEN g[x] ELSE f[x]]

\* the whitelisted attributes of one open element, by column name
ItemAttrs(c, item) ==
    LET ks == {k \in DOMAIN item.elm.attrs : acceptAttr(c, item.elm.name, k)}
    IN [col \in {ColName(item.elm.name, k) : k \in ks} |->
            StrV(item.elm.attrs[CHOOSE k \in ks : ColName(item.elm.name, k) = col])]

RECURSIVE VisitAttrs(_, _)
VisitAttrs(c, items) ==
    IF items = <<>> THEN EmptyMap
    ELSE Merge(ItemAttrs(c, Head(items)), VisitAttrs(c, Tail(items)))

RECURSIVE VisitElms(_, _)
VisitElms(c, elms) ==
    IF DOMAIN elms = {} THEN EmptyMap
    ELSE LET n == CHOOSE n \in DOMAIN elms : TRUE
         IN Merge(ItemAttrs(c, elms[n]), VisitElms(c, MapDel(elms, n)))

getCurrentAccumAttrs(c, t) ==
    IF c.stackStructEval
    THEN VisitAttrs(c, StackVisit(t.attrAccum.stack))
    ELSE VisitElms(c, t.attrAccum.elms)

\* the snapshot taken when an atom or an atom-parent opens
Snapshot(c, t) ==
    MapPut(MapPut(MapPut(getCurrentAccumAttrs(c, t),
        "wordcount", IntV(0)), "poscount", IntV(0)), "corpus_id", StrV(CorpusID))

\* ProcStruct after a successful begin (and end, for an empty element)
ProcStructOpened(c, t, st, line) ==
    IF st.name = c.atomStruct
    THEN LET attrs == Snapshot(c, t)
             t1 == [t EXCEPT !.lastAtomOpenLine = line,
                             !.tokenInAtomCounter = 0,
                             !.currAtomAttrs = Attrs(attrs),
                             !.atomCounter = @ + 1]
         IN IF IsConfigured(c.selfJoin)
            THEN LET g == ColgenFn(c.selfJoin, attrs)
                     t2 == [t1 EXCEPT !.currAtomAttrs = Attrs(MapPut(attrs, "item_id", StrV(g.ident)))]
                 IN IF g.panic THEN Res(t1, Panic, <<>>, <<>>)
                    ELSE IF g.err # NoErr THEN handleProcError(c, t2, line, g.err)
                    ELSE Res(t2, NoErr, Progress(t2, line), <<>>)
            ELSE Res(t1, NoErr, Progress(t1, line), <<>>)
    ELSE IF st.name = c.atomParentStruct
    THEN LET attrs == Snapshot(c, t)
         IN IF IsConfigured(c.selfJoin)
            THEN LET g == ColgenFn(c.selfJoin, attrs)
                     t2 == [t EXCEPT !.currAtomAttrs = Attrs(MapPut(attrs, "item_id", StrV(g.ident)))]
                 IN IF g.panic THEN Res(t, Panic, <<>>, <<>>)
                    ELSE IF g.err # NoErr THEN handleProcError(c, t, line, g.err)
                    ELSE Res(t2, NoErr, Progress(t2, line), <<>>)
            ELSE LET t1 == [t EXCEPT !.currAtomAttrs = Attrs(attrs)]
                 IN Res(t1, NoErr, Progress(t1, line), <<>>)
    ELSE Res(t, NoErr, Progress(t, line), <<>>)

ProcStruct(c, t, st, line, perr, cancelled) ==
    IF cancelled THEN Res(t, ErrStopSignal, <<>>, <<>>)
    ELSE IF perr # NoErr THEN handleProcError(c, t, line, perr)
    ELSE
    LET t0 == [t EXCEPT !.lineCounter = line]
        b == AccumBegin(c.stackStructEval, t0.attrAccum, line, st)
        t1 == [t0 EXCEPT !.attrAccum = b.acc]
    IN IF b.err # NoErr THEN handleProcError(c, t1, line, b.err)
       ELSE IF st.isEmpty
       THEN LET e == AccumEnd(c.stackStructEval, t1.attrAccum, line, st.name)
                t2 == [t1 EXCEPT !.attrAccum = e.acc]
            IN IF e.err = Panic THEN Res(t1, Panic, <<>>, <<>>)
               ELSE IF e.err # NoErr THEN handleProcError(c, t2, line, e.err)
               ELSE ProcStructOpened(c, t2, st, line)
       ELSE ProcStructOpened(c, t1, st, line)

\* the values handed to docInsert.Exec: a missing value becomes ""
RowValues(t, m) == [n \in t.attrNames |-> IF n \in DOMAIN m THEN m[n] ELSE StrV(<<>>)]

\* EmitsRow with the comparison of the two line numbers turned round
EmitsRowAfter(c, t, accumItem) ==
    \/ accumItem.elm.name = c.atomStruct
    \/ /\ accumItem.elm.name = c.atomParentStruct
       /\ t.lastAtomOpenLine > accumItem.lineOpen

\* EmitsRow without the comparison of the two line numbers
EmitsRowAnyParent(c, t, accumItem) ==
    \/ accumItem.elm.name = c.atomStruct
    \/ accumItem.elm.name = c.atomParentStruct

\* whether the closing of accumItem emits a row
EmitsRow(c, t, accumItem) ==
    \/ accumItem.elm.name = c.atomStruct
    \/ /\ accumItem.elm.name = c.atomParentStruct
       /\ t.lastAtomOpenLine < accumItem.lineOpen

ProcStructClose(c, t, st, line, perr, cancelled, execErr) ==
    IF cancelled THEN Res(t, ErrStopSignal, <<>>, <<>>)
    ELSE IF perr # NoErr THEN handleProcError(c, t, line, perr)
    ELSE
    LET e == AccumEnd(c.stackStructEval, t.attrAccum, line, st.name)
        t1 == [t EXCEPT !.attrAccum = e.acc, !.lineCounter = line]
    IN IF e.err = Panic THEN Res(t, Panic, <<>>, <<>>)
       ELSE IF e.err # NoErr
       THEN handleProcError(c, [t EXCEPT !.attrAccum = e.acc], line, e.err)
       ELSE IF EmitsRow(c, t1, e.item)
       THEN IF t1.currAtomAttrs.nil THEN Res(t1, ErrNotInitialized, <<>>, <<>>)
            ELSE LET m == MapPut(t1.currAtomAttrs.m, "poscount", IntV(t1.tokenInAtomCounter))
                     t2 == [t1 EXCEPT !.currAtomAttrs = Attrs(m)]
                     t3 == [t2 EXCEPT !.currAtomAttrs = Attrs(EmptyMap), !.currSentence = <<>>]
                 IN IF execErr # NoErr THEN handleProcError(c, t2, line, execErr)
                    ELSE Res(t3, NoErr, Progress(t3, line), <<RowValues(t2, m)>>)
       ELSE Res(t1, NoErr, Progress(t1, line), <<>>)

\* generateAttrList, as the set of its elements
generateAttrList(c) ==
    UNION {{ColName(s, c.structures[s][i]) : i \in DOMAIN c.structures[s]} :
                s \in DOMAIN c.structures}
    \cup {"wordcount", "poscount", "corpus_id"}
    \cup (IF IsConfigured(c.selfJoin) THEN {"item_id"} ELSE {})

\* ------------------------------------------------------------------ state

VARIABLES
    conf,       \* the configuration (cnf.VTEConf) and the input's alphabet
    ctxDone,    \* the cancellation token has fired
    lib,        \* the background goroutine of ExtractData
    tte,        \* the extractor of the current file
    prs,        \* the parser's position in the current file and the events it delivered
    w,          \* the Writer: its transaction and the database behind it
    ch,         \* the status channel, the sub-status channels and their forwarders
    cb,         \* history: the last callback the parser made
    gh,         \* history: what the run has done so far
    px          \* a function of the program applied on its own: its inputs and its result

vars == <<conf, ctxDone, lib, tte, prs, w, ch, cb, gh, px>>

\* no function has been applied on its own
NoCall == [op |-> "none"]

Files == 1..conf.numFiles

NoCallback ==
    [kind |-> "none", name |-> "", cancelled |-> FALSE, perr |-> NoErr, execErr |-> NoErr,
     ret |-> NoErr, pre |-> NewTTExtractor, genFailed |-> FALSE, accepted |-> FALSE,
     openedSince |-> FALSE, closedSince |-> FALSE, attempt |-> FALSE, rows |-> <<>>, sent |-> <<>>,
     isEmpty |-> FALSE]

\* the parser at the start of a file; events are the lines read so far, which
\* the second pass reads again
NewParser == [line |-> 0, tokIdx |-> 0, structErr |-> FALSE, events |-> <<>>]

NewLib ==
    [pc |-> "call", fileIdx |-> 1, msg |-> Status(0, 0, NoErr), after |-> "",
     runErr |-> NoErr, wg |-> 0, faults |-> conf.maxFaults, todo |-> {}, i |-> 0]

InitWriter ==
    [created |-> FALSE, tx |-> "nil", del |-> FALSE, rows |-> <<>>, counts |-> {},
     closed |-> FALSE,
     commits |-> 0,
     durable |-> [old |-> conf.dbExisted, rows |-> <<>>, counts |-> {}]]

InitChans ==
    [sub |-> [f \in Files |-> [made |-> FALSE, buf |-> <<>>, closed |-> FALSE]],
     fwd |-> [f \in Files |-> [pc |-> "off", upd |-> Status(0, 0, NoErr)]],
     closed |-> FALSE,
     received |-> <<>>]

InitGhost ==
    [open |-> <<>>, elems |-> <<>>, nested |-> TRUE, ngrams |-> EmptyMap, runNgrams |-> EmptyMap, sinceClose |-> 0,
     inserted |-> 0, execFails |-> 0, notInit |-> 0,
     expected |-> 0, expectedByClosure |-> 0, plain |-> TRUE,
     fatal |-> {}, lost |-> FALSE, recovered |-> FALSE, ignored |-> FALSE, arfDone |-> FALSE,
     arfWarned |-> 0, arfMatched |-> EmptyMap,
     sinceOpen |-> [atom |-> 0, parent |-> 0],
     seen |-> <<>>, closedSeen |-> EmptyMap]

\* the results of the parser's own reading of a line
ParserErrs == {NoErr, ErrParser}

\* the configurations explored: the fields of cnf.VTEConf the engine reads, and
\* the alphabet and length of the input
ConfOf(strict, maxErr, gen, parent, ngram, arf, window, nfiles, broken, lines, faults, ids, empties) ==
    [ stackStructEval |-> strict,
      maxNumErrors |-> maxErr,
      atomStruct |-> "p",
      atomParentStruct |-> parent,
      structures |-> [s \in StructNames |-> IF s = "doc" THEN <<"id">> ELSE <<>>],
      selfJoin |-> [generatorFn |-> gen, argColumns |-> <<"doc_id">>],
      ngramSize |-> IF ngram THEN 1 ELSE 0,
      vertColumns |-> IF ngram THEN 1 ELSE 0,
      calcARF |-> arf,
      movingWindow |-> window,
      appendData |-> window,
      numFiles |-> nfiles,
      filterBroken |-> broken,
      dbExisted |-> TRUE,
      verticalFile |-> FALSE,
      verticalFiles |-> TRUE,
      dateAttr |-> window,
      words |-> {"A"},
      tagNames |-> StructNames,
      kinds |-> {"tok", "open", "close"},
      perrs |-> ParserErrs,
      idValues |-> ids,
      atomIdValues |-> {},
      emptyTags |-> empties,
      maxLines |-> lines,
      maxFaults |-> faults ]

InitRest ==
    /\ ctxDone = FALSE
    /\ lib = NewLib
    /\ tte = NewTTExtractor
    /\ prs = NewParser
    /\ w = InitWriter
    /\ ch = InitChans
    /\ cb = NoCallback
    /\ gh = InitGhost
    /\ px = NoCall

\* ------------------------------------------------------------------ history of the input

\* The open elements of the input as the accumulator mode in force sees them,
\* each with two marks: an atom was opened since it opened, an atom was closed
\* since it opened. Kept from the events alone, without the extractor's line
\* bookkeeping.
OpenMark(name) == [name |-> name, openedSince |-> FALSE, closedSince |-> FALSE]

IsOpen(g, name) == \E i \in DOMAIN g : g[i].name = name

OpenAccepted(c, g, name) == c.stackStructEval \/ ~IsOpen(g, name)

CloseAccepted(c, g, name) ==
    IF c.stackStructEval THEN g # <<>> /\ g[Len(g)].name = name ELSE IsOpen(g, name)

MarkOpened(g) == [i \in DOMAIN g |-> [g[i] EXCEPT !.openedSince = TRUE]]
MarkClosed(g) == [i \in DOMAIN g |-> [g[i] EXCEPT !.closedSince = TRUE]]

LastIndexOf(g, name) == CHOOSE i \in DOMAIN g : g[i].name = name /\ \A j \in DOMAIN g : g[j].name = name => j <= i

RemoveAt(g, i) == SubSeq(g, 1, i - 1) \o SubSeq(g, i + 1, Len(g))

AfterOpen(c, g, st) ==
    IF ~OpenAccepted(c, g, st.name) THEN g
    ELSE LET g1 == IF st.name = c.atomStruct THEN MarkOpened(g) ELSE g
         IN IF st.isEmpty THEN g1 ELSE Append(g1, OpenMark(st.name))

Closed(c, g, name) == g[LastIndexOf(g, name)]

AfterClose(c, g, name) ==
    IF ~CloseAccepted(c, g, name) THEN g
    ELSE LET g1 == RemoveAt(g, LastIndexOf(g, name))
         IN IF name = c.atomStruct THEN MarkClosed(g1) ELSE g1

\* the words whose numbers the sentence buffer holds, oldest first
WordsHeld(c, t) ==
    [i \in DOMAIN t.currSentence |->
        IF c.vertColumns = 0 THEN "" ELSE WordDictGet(t.valueDict, t.currSentence[i])]

\* ------------------------------------------------------------------ the parser's callbacks

\* The parser (vertigo.ParseVerticalFile) is the environment of the extractor:
\* it delivers one event per line, numbered from 0, with or without a parsing
\* error, makes no ProcStructClose call for a self-closing element, goes on
\* while the callback returns nil and hands the first non-nil result back to
\* Run. A file may end after any line. What the parser itself does with the
\* context is not described here: a callback may follow a cancellation.

HasRoom(n) == Len(ch.sub[lib.fileIdx].buf) + n <= SubChanCap

Publish(sent) == [ch EXCEPT !.sub[lib.fileIdx].buf = @ \o sent]

FatalKind(ret) ==
    CASE ret = ErrStopSignal -> {"cancel"}
      [] ret = ErrorTooManyParsingErrors -> {"budget"}
      [] ret = ErrNotInitialized -> {"state"}
      [] OTHER -> {}

\* the parser goes on after a nil result, hands any other result back to Run,
\* and a panic of the callback unwinds the goroutine
AfterCallback(r, ev, record, ghost, faults) ==
    /\ HasRoom(Len(r.sent))
    /\ tte' = r.tte
    /\ ch' = Publish(r.sent)
    /\ w' = [w EXCEPT !.rows = @ \o r.rows]
    /\ prs' = [prs EXCEPT !.line = @ + 1,
                          !.tokIdx = IF ev.kind = "tok" /\ ev.perr = NoErr THEN @ + 1 ELSE @,
                          !.structErr = @ \/ (ev.kind # "tok" /\ ev.perr # NoErr),
                          !.events = IF conf.calcARF /\ conf.vertColumns > 0
                                     THEN Append(@, [ev EXCEPT !.idx = prs.tokIdx])
                                     ELSE @]
    /\ cb' = record
    /\ gh' = [ghost EXCEPT !.fatal = @ \cup FatalKind(r.ret)]
    /\ lib' = [lib EXCEPT !.pc = CASE r.ret = NoErr -> "parse"
                                   [] r.ret = Panic -> "panic"
                                   [] OTHER -> "parsefail",
                          !.runErr = r.ret,
                          !.faults = @ - faults]
    /\ UNCHANGED <<px, conf, ctxDone>>

Parsing == lib.pc = "parse" /\ prs.line < conf.maxLines

OnToken ==
    /\ Parsing
    /\ "tok" \in conf.kinds
    /\ \E word \in conf.words, perr \in conf.perrs :
       \E r \in {ProcToken(conf, tte, [word |-> word, idx |-> prs.tokIdx], prs.line, perr)} :
         LET ev == [kind |-> "tok", name |-> word, perr |-> perr, idx |-> 0, isEmpty |-> FALSE]
             record == [NoCallback EXCEPT !.kind = "tok", !.name = word, !.cancelled = ctxDone,
                                          !.perr = perr, !.ret = r.ret, !.pre = tte,
                                          !.sent = r.sent]
             held == WordsHeld(conf, r.tte)
             occurs == perr = NoErr /\ Len(held) >= conf.ngramSize
             g == SubSeq(held, Len(held) - conf.ngramSize + 1, Len(held))
             ghost == [gh EXCEPT !.recovered = @ \/ perr # NoErr,
                                 !.sinceClose = IF perr = NoErr THEN @ + 1 ELSE @,
                                 !.sinceOpen = IF perr = NoErr
                                               THEN [atom |-> @.atom + 1, parent |-> @.parent + 1]
                                               ELSE @,
                                 !.ngrams = IF ~occurs THEN @
                                            ELSE IF g \in DOMAIN @ THEN [@ EXCEPT ![g] = @ + 1]
                                            ELSE MapPut(@, g, 1),
                                 !.runNgrams = IF ~occurs THEN @
                                               ELSE IF g \in DOMAIN @ THEN [@ EXCEPT ![g] = @ + 1]
                                               ELSE MapPut(@, g, 1)]
         IN AfterCallback(r, ev, record, ghost, 0)

\* the extractor as the snapshot of an opening tag sees it: the element is on
\* the accumulator, unless it is an empty one, which has been taken off again
AtOpening(c, t, st, line) ==
    LET b == AccumBegin(c.stackStructEval, t.attrAccum, line, st).acc
    IN [t EXCEPT !.attrAccum = IF st.isEmpty
                               THEN AccumEnd(c.stackStructEval, b, line, st.name).acc
                               ELSE b]

\* the attribute values an opening tag may carry
TagAttrs(name) ==
    IF name = "doc" THEN {NoAttrs} \cup {IdAttr(v) : v \in conf.idValues}
    ELSE {NoAttrs} \cup {IdAttr(v) : v \in conf.atomIdValues}

OnStruct ==
    /\ Parsing
    /\ "open" \in conf.kinds
    /\ \E name \in conf.tagNames, isEmpty \in conf.emptyTags, perr \in conf.perrs :
       \E attrs \in TagAttrs(name) :
       \E r \in {ProcStruct(conf, tte, [name |-> name, attrs |-> attrs, isEmpty |-> isEmpty],
                             prs.line, perr, ctxDone)} :
         LET st == [name |-> name, attrs |-> attrs, isEmpty |-> isEmpty]
             ev == [kind |-> "open", name |-> name, perr |-> perr, idx |-> 0, isEmpty |-> isEmpty]
             seen == ~ctxDone /\ perr = NoErr
             accepted == seen /\ OpenAccepted(conf, gh.open, name)
             raw == CallByName(conf.selfJoin.generatorFn,
                               Snapshot(conf, AtOpening(conf, tte, st, prs.line)),
                               conf.selfJoin.argColumns)
             genFailed == /\ accepted
                          /\ name \in {conf.atomStruct, conf.atomParentStruct}
                          /\ IsConfigured(conf.selfJoin)
                          /\ raw.panic \/ raw.err # NoErr
             record == [NoCallback EXCEPT !.kind = "open", !.name = name, !.cancelled = ctxDone,
                                          !.perr = perr, !.ret = r.ret, !.pre = tte,
                                          !.accepted = accepted, !.genFailed = genFailed,
                                          !.isEmpty = isEmpty,
                                          !.sent = r.sent]
             ghost == [gh EXCEPT !.open = IF seen THEN AfterOpen(conf, @, st) ELSE @,
                                 !.elems = IF accepted /\ ~isEmpty
                                           THEN Append(@, [name |-> name, attrs |-> attrs])
                                           ELSE @,
                                 !.seen = IF accepted /\ ~isEmpty
                                          THEN Append(@, getCurrentAccumAttrs(conf,
                                                     AtOpening(conf, tte, st, prs.line)))
                                          ELSE @,
                                 !.nested = @ /\ (seen => accepted),
                                 !.sinceOpen =
                                     IF ~accepted \/ r.ret = Panic THEN @
                                     ELSE IF name = conf.atomStruct THEN [@ EXCEPT !.atom = 0]
                                     ELSE IF name = conf.atomParentStruct THEN [@ EXCEPT !.parent = 0]
                                     ELSE @,
                                 !.plain = @ /\ ~(seen /\ isEmpty),
                                 !.recovered = @ \/ (~ctxDone /\ r.tte.errorCounter > tte.errorCounter)]
         IN AfterCallback(r, ev, record, ghost, 0)

OnStructClose ==
    /\ Parsing
    /\ "close" \in conf.kinds
    /\ \E name \in conf.tagNames, perr \in conf.perrs, execErr \in {NoErr, ErrWriter} :
       \E r \in {ProcStructClose(conf, tte, [name |-> name], prs.line, perr, ctxDone, execErr)},
          reached \in {ProcStructClose(conf, tte, [name |-> name], prs.line, perr, ctxDone,
                                       NoErr).rows # <<>>} :
         LET ev == [kind |-> "close", name |-> name, perr |-> perr, idx |-> 0, isEmpty |-> FALSE]
             seen == ~ctxDone /\ perr = NoErr
             accepted == seen /\ CloseAccepted(conf, gh.open, name)
             mark == IF accepted THEN Closed(conf, gh.open, name) ELSE OpenMark(name)
             failed == reached /\ execErr # NoErr
             record == [NoCallback EXCEPT !.kind = "close", !.name = name, !.cancelled = ctxDone,
                                          !.perr = perr, !.execErr = execErr, !.ret = r.ret,
                                          !.pre = tte, !.accepted = accepted,
                                          !.openedSince = mark.openedSince,
                                          !.closedSince = mark.closedSince,
                                          !.attempt = reached \/ r.ret = ErrNotInitialized,
                                          !.rows = r.rows, !.sent = r.sent]
             ghost == [gh EXCEPT
                         !.open = IF seen THEN AfterClose(conf, @, name) ELSE @,
                         !.elems = IF accepted THEN RemoveAt(@, LastIndexOf(gh.open, name)) ELSE @,
                         !.seen = IF accepted THEN RemoveAt(@, LastIndexOf(gh.open, name)) ELSE @,
                         !.closedSeen = IF accepted THEN gh.seen[LastIndexOf(gh.open, name)] ELSE @,
                         !.nested = @ /\ (seen => accepted),
                         !.sinceClose = IF accepted /\ name = conf.atomStruct THEN 0 ELSE @,
                         !.inserted = @ + Len(r.rows),
                         !.execFails = @ + (IF failed THEN 1 ELSE 0),
                         !.notInit = @ + (IF r.ret = ErrNotInitialized THEN 1 ELSE 0),
                         !.expected = @ + (IF accepted /\ (name = conf.atomStruct
                                \/ (name = conf.atomParentStruct /\ ~mark.openedSince))
                                           THEN 1 ELSE 0),
                         !.expectedByClosure = @ + (IF accepted /\ (name = conf.atomStruct
                                \/ (name = conf.atomParentStruct /\ ~mark.closedSince))
                                           THEN 1 ELSE 0),
                         !.plain = @ /\ ~failed,
                         !.lost = @ \/ failed,
                         !.recovered = @ \/ (~ctxDone /\ ~failed /\ r.tte.errorCounter > tte.errorCounter)]
         IN /\ execErr # NoErr => reached /\ lib.faults > 0
            /\ AfterCallback(r, ev, record, ghost, IF failed THEN 1 ELSE 0)

\* ------------------------------------------------------------------ TTExtractor.Run

\* a statement of the Writer fails when its transaction is not open, and may
\* fail for the database's own reasons
MayFail == IF w.tx # "open" THEN {TRUE} ELSE IF lib.faults > 0 THEN {TRUE, FALSE} ELSE {FALSE}

Charge(fail) == IF fail /\ w.tx = "open" THEN 1 ELSE 0

\* Run up to the first parse: the attribute list and the prepared insert
RunPrepare ==
    /\ lib.pc = "run"
    /\ \E fail \in MayFail :
         /\ lib' = [lib EXCEPT !.pc = IF fail THEN "ranfile" ELSE "parse",
                               !.runErr = IF fail THEN ErrWriter ELSE NoErr,
                               !.faults = @ - Charge(fail)]
         /\ gh' = [gh EXCEPT !.fatal = @ \cup (IF fail THEN {"writer"} ELSE {}),
                             !.lost = @ \/ fail]
    /\ tte' = [tte EXCEPT !.attrNames = generateAttrList(conf)]
    /\ UNCHANGED <<px, conf, ctxDone, prs, w, ch, cb>>

\* the parser reaches the end of the file and returns nil
EndOfFile ==
    /\ lib.pc = "parse"
    /\ lib' = [lib EXCEPT !.pc = IF conf.vertColumns > 0
                                 THEN IF conf.calcARF THEN "arf" ELSE "counts"
                                 ELSE "ranfile",
                          !.runErr = NoErr]
    /\ UNCHANGED <<px, conf, ctxDone, tte, prs, w, ch, cb, gh>>

Rollback(wr) ==
    IF wr.tx = "open" THEN [wr EXCEPT !.tx = "rolledback", !.del = FALSE, !.rows = <<>>, !.counts = {}]
    ELSE wr

\* Run after a failed first parse: Rollback, the status event, the return
ParseFailed ==
    /\ lib.pc = "parsefail"
    /\ HasRoom(1)
    /\ w' = Rollback(w)
    /\ ch' = Publish(<<Status(tte.atomCounter, -1, lib.runErr)>>)
    /\ lib' = [lib EXCEPT !.pc = "ranfile"]
    /\ gh' = [gh EXCEPT !.lost = TRUE]
    /\ UNCHANGED <<px, conf, ctxDone, tte, prs, cb>>

\* the second parse, by the ARF calculator, whose ProcStruct and
\* ProcStructClose hand the parser's error back
ArfAborts == prs.structErr

ArfPass ==
    /\ lib.pc = "arf"
    /\ \E r \in {ARFParse(conf, tte.tokenCounter,
                          [tte |-> tte, sent |-> <<>>, err |-> NoErr, warned |-> 0, matched |-> EmptyMap],
                          prs.events)} :
         /\ tte' = IF r.err # NoErr THEN r.tte ELSE Finalize(tte.tokenCounter, r.tte)
         /\ gh' = [gh EXCEPT !.fatal = @ \cup (IF ArfAborts THEN {"arf"} ELSE {}),
                             !.lost = @ \/ ArfAborts,
                             !.arfDone = ~ArfAborts,
                             !.arfWarned = r.warned,
                             !.arfMatched = r.matched]
    /\ lib' = [lib EXCEPT !.pc = IF ArfAborts THEN "ranfile" ELSE "counts",
                          !.runErr = IF ArfAborts THEN ErrParser ELSE NoErr]
    /\ UNCHANGED <<px, conf, ctxDone, prs, w, ch, cb>>

\* insertCounts up to its loop: a failed PrepareInsert returns nil
InsertCountsPrepare ==
    /\ lib.pc = "counts"
    /\ \E fail \in MayFail :
         /\ lib' = [lib EXCEPT !.pc = IF fail \/ DOMAIN tte.colCounts = {} THEN "ranfile" ELSE "insert",
                               !.runErr = NoErr,
                               !.todo = DOMAIN tte.colCounts,
                               !.i = 0,
                               !.faults = @ - Charge(fail)]
         /\ gh' = [gh EXCEPT !.lost = @ \/ (fail /\ DOMAIN tte.colCounts # {}),
                             !.ignored = @ \/ fail]
    /\ UNCHANGED <<px, conf, ctxDone, tte, prs, w, ch, cb>>

\* one iteration of the loop of insertCounts; hash_id is the primary key of
\* colcounts, so Exec fails on a hash_id the table already holds
InsertCount ==
    /\ lib.pc = "insert"
    /\ \E key \in lib.todo, fail \in MayFail :
         LET sent == IF lib.i > 0 /\ lib.i % StatusEachNth = 0
                     THEN <<Status(tte.atomCounter, tte.lineCounter, NoErr)>> ELSE <<>>
             rest == lib.todo \ {key}
             hash == generateHashID(conf, tte, tte.colCounts[key])
             taken == \E r \in w.counts : r[4] = hash
         IN IF ctxDone
            THEN /\ ~fail \/ w.tx # "open"
                 /\ lib' = [lib EXCEPT !.pc = "ranfile", !.runErr = ErrStopSignal]
                 /\ gh' = [gh EXCEPT !.fatal = @ \cup {"cancel"}, !.lost = TRUE]
                 /\ UNCHANGED <<w, ch>>
            ELSE IF fail \/ taken
            THEN /\ lib' = [lib EXCEPT !.pc = "ranfile", !.runErr = ErrWriter,
                                       !.faults = @ - Charge(fail)]
                 /\ gh' = [gh EXCEPT !.fatal = @ \cup {"writer"}, !.lost = TRUE]
                 /\ UNCHANGED <<w, ch>>
            ELSE /\ HasRoom(Len(sent))
                 /\ w' = [w EXCEPT !.counts = @ \cup {<<lib.fileIdx, key, tte.colCounts[key].count, hash>>}]
                 /\ ch' = Publish(sent)
                 /\ lib' = [lib EXCEPT !.pc = IF rest = {} THEN "ranfile" ELSE "insert",
                                       !.runErr = NoErr, !.todo = rest, !.i = @ + 1]
                 /\ UNCHANGED gh
    /\ UNCHANGED <<px, conf, ctxDone, tte, prs, cb>>

\* ------------------------------------------------------------------ library.ExtractData

ErrStatus(file, err) == [Status(0, 0, err) EXCEPT !.File = file]

FileName(f) == IF f = 1 THEN "f1" ELSE IF f = 2 THEN "f2" ELSE "f3"

SendThen(l, file, err, after) == [l EXCEPT !.pc = "send", !.msg = ErrStatus(file, err), !.after = after]

\* wg.Add and Writer.Initialize; on failure wg.Done and the error status
\* ExtractData up to the start of the goroutine: the checks of the
\* configuration, factory.NewDatabaseWriter, the check of an update against a
\* missing database and the list of files, each with its early return
ExtractDataNoExistsCheck ==
    /\ lib.pc = "call"
    /\ LET invalid == conf.movingWindow /\ ~conf.appendData
       IN /\ w' = [w EXCEPT !.created = ~invalid]
          /\ lib' = [lib EXCEPT !.pc = IF invalid \/ conf.numFiles = 0 THEN "refused" ELSE "initialize"]
    /\ UNCHANGED <<px, conf, ctxDone, tte, prs, ch, cb, gh>>

\* Writer.Initialize that leaves the tables of an existing database alone
InitializeKeepsExisting ==
    /\ lib.pc = "initialize"
    /\ w' = [w EXCEPT !.tx = "open"]
    /\ lib' = [lib EXCEPT !.wg = conf.numFiles,
                          !.pc = IF conf.movingWindow THEN "window" ELSE "file"]
    /\ UNCHANGED <<px, conf, ctxDone, tte, prs, ch, cb, gh>>

\* VTEConf.Validate
Validate(c) ==
    IF c.verticalFile /\ c.verticalFiles
    THEN "cannot use verticalFile and verticalFiles at the same time"
    ELSE IF c.movingWindow /\ ~c.dateAttr
    THEN "moving data window defined via *removeEntriesBeforeDate*, but no *dateAttr* found"
    ELSE NoErr

ExtractData ==
    /\ lib.pc = "call"
    /\ LET invalid == Validate(conf) # NoErr \/ (conf.movingWindow /\ ~conf.appendData)
           refused == \/ ~conf.dbExisted /\ conf.appendData
                      \/ conf.numFiles = 0
       IN /\ w' = [w EXCEPT !.created = ~invalid]
          /\ lib' = [lib EXCEPT !.pc = IF invalid \/ refused THEN "refused" ELSE "initialize"]
    /\ UNCHANGED <<px, conf, ctxDone, tte, prs, ch, cb, gh>>

Initialize ==
    /\ lib.pc = "initialize"
    /\ \E fail \in (IF lib.faults > 0 THEN {TRUE, FALSE} ELSE {FALSE}) :
       \E dropped \in (IF conf.appendData THEN {FALSE} ELSE IF fail THEN {TRUE, FALSE} ELSE {TRUE}) :
         /\ w' = [w EXCEPT !.tx = IF fail THEN "nil" ELSE "open",
                           !.durable.old = @ /\ ~dropped]
         /\ lib' = IF fail
                   THEN SendThen([lib EXCEPT !.wg = conf.numFiles - 1, !.faults = @ - 1],
                                 "", ErrWriter, "return")
                   ELSE [lib EXCEPT !.wg = conf.numFiles,
                                    !.pc = IF conf.movingWindow THEN "window" ELSE "file"]
         /\ gh' = [gh EXCEPT !.fatal = @ \cup (IF fail THEN {"writer"} ELSE {}),
                             !.lost = @ \/ fail]
    /\ UNCHANGED <<px, conf, ctxDone, tte, prs, ch, cb>>

\* Writer.RemoveRecordsOlderThan, inside the transaction
RemoveRecordsOlderThan ==
    /\ lib.pc = "window"
    /\ \E fail \in MayFail :
         /\ w' = [w EXCEPT !.del = ~fail]
         /\ lib' = IF fail
                   THEN SendThen([lib EXCEPT !.wg = @ - 1, !.faults = @ - Charge(fail)],
                                 "", ErrWriter, "return")
                   ELSE [lib EXCEPT !.pc = "file"]
         /\ gh' = [gh EXCEPT !.fatal = @ \cup (IF fail THEN {"writer"} ELSE {}),
                             !.lost = @ \/ fail]
    /\ UNCHANGED <<px, conf, ctxDone, tte, prs, ch, cb>>

\* the head of the loop over the files: the sub-status channel, its forwarder
\* and the extractor; after a failed NewTTExtractor the channel is closed, the
\* error is sent, and tte.Run is then called on the nil extractor
\* a per-file step that leaves the sub-status channel open
CloseSubNever(c, f) == c

\* close(subStatusChan)
CloseSub(c, f) == [c EXCEPT !.sub[f].closed = TRUE]

StartFile ==
    /\ lib.pc = "file"
    /\ LET f == lib.fileIdx
           made == [ch EXCEPT !.sub[f] = [made |-> TRUE, buf |-> <<>>, closed |-> FALSE],
                              !.fwd[f].pc = "recv"]
       IN /\ ch' = IF conf.filterBroken THEN CloseSub(made, f) ELSE made
          /\ lib' = IF conf.filterBroken
                    THEN SendThen(lib, "", "filter library not found", "panic")
                    ELSE [lib EXCEPT !.pc = "run", !.runErr = NoErr]
          /\ gh' = [gh EXCEPT !.open = <<>>, !.elems = <<>>, !.nested = TRUE,
                              !.ngrams = EmptyMap, !.sinceClose = 0, !.arfDone = FALSE,
                              !.arfWarned = 0, !.arfMatched = EmptyMap,
                              !.sinceOpen = [atom |-> 0, parent |-> 0],
                              !.seen = <<>>, !.closedSeen = EmptyMap,
                              !.fatal = @ \cup (IF conf.filterBroken THEN {"constructor"} ELSE {})]
    /\ tte' = NewTTExtractor
    /\ prs' = NewParser
    /\ cb' = NoCallback
    /\ UNCHANGED <<px, conf, ctxDone, w>>

\* after Run: close(subStatusChan), the error status, and on to the next file
AfterRun ==
    /\ lib.pc = "ranfile"
    /\ LET f == lib.fileIdx
           next == IF f < conf.numFiles THEN "file" ELSE "wait"
           l == [lib EXCEPT !.fileIdx = IF f < conf.numFiles THEN f + 1 ELSE f]
       IN /\ ch' = CloseSub(ch, f)
          /\ lib' = IF lib.runErr # NoErr
                    THEN SendThen(l, FileName(f), lib.runErr, next)
                    ELSE [l EXCEPT !.pc = next]
    /\ UNCHANGED <<px, conf, ctxDone, tte, prs, w, cb, gh>>

\* sendErrStatus: the unbuffered send meets the consumer's receive
SendErrStatus ==
    /\ lib.pc = "send"
    /\ ~ch.closed
    /\ ch' = [ch EXCEPT !.received = Append(@, lib.msg)]
    /\ lib' = [lib EXCEPT !.pc = lib.after]
    /\ UNCHANGED <<px, conf, ctxDone, tte, prs, w, cb, gh>>

Commit(wr, fail) ==
    IF wr.tx = "open" /\ ~fail
    THEN [wr EXCEPT !.tx = "committed",
                    !.commits = @ + 1,
                    !.durable = [old |-> @.old /\ ~wr.del,
                                 rows |-> @.rows \o wr.rows,
                                 counts |-> @.counts \cup wr.counts]]
    ELSE IF wr.tx = "open" THEN [wr EXCEPT !.tx = "failed"]
    ELSE wr

\* wg.Wait, then Writer.Commit, whose error is sent as a status
WaitCommit ==
    /\ lib.pc = "wait"
    /\ lib.wg = 0
    /\ \E fail \in MayFail :
         /\ w' = Commit(w, fail)
         /\ lib' = IF fail
                   THEN SendThen([lib EXCEPT !.faults = @ - Charge(fail)], "", ErrWriter, "return")
                   ELSE [lib EXCEPT !.pc = "return"]
         /\ gh' = [gh EXCEPT !.lost = @ \/ (fail /\ w.tx = "open")]
    /\ UNCHANGED <<px, conf, ctxDone, tte, prs, ch, cb>>

\* the deferred calls of a return: close(statusChan), Writer.Close
Return ==
    /\ lib.pc = "return"
    /\ ch' = [ch EXCEPT !.closed = TRUE]
    /\ w' = [w EXCEPT !.closed = TRUE]
    /\ lib' = [lib EXCEPT !.pc = "done"]
    /\ UNCHANGED <<px, conf, ctxDone, tte, prs, cb, gh>>

\* a panic of the goroutine runs the same deferred calls and ends the process
PanicUnwind ==
    /\ lib.pc = "panic"
    /\ ch' = [ch EXCEPT !.closed = TRUE]
    /\ w' = [w EXCEPT !.closed = TRUE]
    /\ lib' = [lib EXCEPT !.pc = "crashed"]
    /\ UNCHANGED <<px, conf, ctxDone, tte, prs, cb, gh>>

\* the forwarder of file f: for upd := range subStatusChan
FwdRecv(f) ==
    /\ lib.pc # "crashed"
    /\ ch.fwd[f].pc = "recv"
    /\ ch.sub[f].buf # <<>>
    /\ ch' = [ch EXCEPT !.fwd[f] = [pc |-> "send", upd |-> [Head(ch.sub[f].buf) EXCEPT !.File = FileName(f)]],
                        !.sub[f].buf = Tail(@)]
    /\ UNCHANGED <<px, conf, ctxDone, lib, tte, prs, w, cb, gh>>

\* statusChan <- upd, met by the consumer's receive
FwdSend(f) ==
    /\ lib.pc # "crashed"
    /\ ch.fwd[f].pc = "send"
    /\ ~ch.closed
    /\ ch' = [ch EXCEPT !.fwd[f].pc = "recv", !.received = Append(@, ch.fwd[f].upd)]
    /\ UNCHANGED <<px, conf, ctxDone, lib, tte, prs, w, cb, gh>>

\* the range loop ends on the closed and drained channel; deferred wg.Done
FwdExit(f) ==
    /\ lib.pc # "crashed"
    /\ ch.fwd[f].pc = "recv"
    /\ ch.sub[f].buf = <<>>
    /\ ch.sub[f].closed
    /\ ch' = [ch EXCEPT !.fwd[f].pc = "done"]
    /\ lib' = [lib EXCEPT !.wg = @ - 1]
    /\ UNCHANGED <<px, conf, ctxDone, tte, prs, w, cb, gh>>

ForwardRecv == \E f \in Files : FwdRecv(f)
ForwardSend == \E f \in Files : FwdSend(f)
ForwardExit == \E f \in Files : FwdExit(f)

\* the caller cancels the context
Cancel ==
    /\ ~ctxDone
    /\ lib.pc \notin {"refused", "done", "panic", "crashed"}
    /\ ctxDone' = TRUE
    /\ UNCHANGED <<px, conf, lib, tte, prs, w, ch, cb, gh>>

\* the steps of the program and of the consumer of the status channel
Program ==
    \/ ExtractData
    \/ Initialize
    \/ RemoveRecordsOlderThan
    \/ StartFile
    \/ RunPrepare
    \/ OnToken
    \/ OnStruct
    \/ OnStructClose
    \/ EndOfFile
    \/ ParseFailed
    \/ ArfPass
    \/ InsertCountsPrepare
    \/ InsertCount
    \/ AfterRun
    \/ SendErrStatus
    \/ WaitCommit
    \/ Return
    \/ PanicUnwind
    \/ ForwardRecv
    \/ ForwardSend
    \/ ForwardExit

Next == Cancel \/ Program

\* ------------------------------------------------------------------ specifications

Generators == {"identity", "intercorp", "nosuch"}

\* one file, both accumulator modes, a Writer that may refuse a statement
PlainConfs ==
    {ConfOf(strict, maxErr, "", "doc", FALSE, FALSE, FALSE, 1, FALSE, MaxLines, 1,
            {ShortVal}, BOOLEAN) :
        strict \in BOOLEAN, maxErr \in 0..MaxErrBudget}

\* one file, a column generator configured
GeneratorConfs ==
    {ConfOf(TRUE, maxErr, gen, "doc", FALSE, FALSE, FALSE, 1, FALSE, MaxGenLines, 0,
            {ShortVal, LongVal}, {FALSE}) :
        maxErr \in 0..MaxErrBudget, gen \in Generators}

\* n-gram counting with ARF and the moving data window
FullConf ==
    ConfOf(TRUE, 0, "", "doc", TRUE, TRUE, TRUE, 1, FALSE, MaxLibLines, 1, {ShortVal}, {FALSE})

\* several files, n-gram counting, ARF, the moving window, a filter that does
\* not load: the orchestration around the extractor
LibConfs ==
    {ConfOf(TRUE, maxErr, "", "doc", TRUE, arf, window, nfiles, broken, MaxLibLines, 1,
            {ShortVal}, {FALSE}) :
        maxErr \in 0..MaxErrBudget, arf \in BOOLEAN, window \in BOOLEAN,
        nfiles \in 1..MaxFiles, broken \in BOOLEAN}

Init == conf \in PlainConfs \cup GeneratorConfs \cup {FullConf} /\ InitRest

Spec == Init /\ [][Next]_vars

\* a file of nothing but unparsable token lines, all within the error budget
BurstConf ==
    [ConfOf(TRUE, MaxBurstLines, "", "", FALSE, FALSE, FALSE, 1, FALSE, MaxBurstLines, 0,
            {ShortVal}, {FALSE})
        EXCEPT !.kinds = {"tok"}, !.perrs = {ErrParser}]

InitBurst == conf \in {BurstConf, FullConf} /\ InitRest

SpecBurst == InitBurst /\ [][Next]_vars

\* library calls that ExtractData turns down after it has made the Writer: an
\* update of a database that does not exist, no vertical file to process
CallConfs ==
    {[FullConf EXCEPT !.dbExisted = FALSE], [FullConf EXCEPT !.numFiles = 0]}

\* configurations that break one of the rules for a configuration: both a
\* single vertical file and a list, a date to remove before without a date
\* attribute, a date attribute without such a date, an atom structure that is
\* not among the structures, an n-gram size below 1
InvalidConfs ==
    {[FullConf EXCEPT !.verticalFile = TRUE],
     [FullConf EXCEPT !.dateAttr = FALSE],
     [FullConf EXCEPT !.movingWindow = FALSE],
     [FullConf EXCEPT !.atomStruct = "s"],
     [FullConf EXCEPT !.ngramSize = 0]}

InitConf == conf \in {FullConf} \cup InvalidConfs /\ InitRest

SpecConf == InitConf /\ [][Next]_vars

InitCall == conf \in {FullConf} \cup CallConfs /\ InitRest

SpecCall == InitCall /\ [][Next]_vars

\* one file, both accumulator modes, the largest error budget
StructConfs ==
    {ConfOf(strict, MaxErrBudget, "", "doc", FALSE, FALSE, FALSE, 1, FALSE, MaxLines, 0,
            {ShortVal}, BOOLEAN) :
        strict \in BOOLEAN}

\* the set accumulator with an id on both structures, both ids stored
SetAttrConf ==
    [ConfOf(FALSE, MaxErrBudget, "", "doc", FALSE, FALSE, FALSE, 1, FALSE, MaxLines, 0,
            {ShortVal}, {FALSE})
        EXCEPT !.atomIdValues = {LongVal},
               !.structures = [s \in StructNames |-> <<"id">>],
               !.kinds = {"open", "close"},
               !.perrs = {NoErr}]

InitStruct == conf \in StructConfs \cup {SetAttrConf, FullConf} /\ InitRest

SpecStruct == InitStruct /\ [][Next]_vars

\* bigrams over two words, p the atom, a Writer that may refuse one statement
NgramConfs ==
    {[ConfOf(strict, MaxErrBudget, "", "", TRUE, FALSE, FALSE, 1, FALSE, MaxNgramLines, 1,
             {ShortVal}, {FALSE})
         EXCEPT !.ngramSize = 2, !.words = {"A", "B"}, !.tagNames = {"p"},
                !.perrs = {NoErr}] :
        strict \in BOOLEAN}

InitNgram == conf \in NgramConfs \cup {FullConf} /\ InitRest

SpecNgram == InitNgram /\ [][Next]_vars

\* single words counted with ARF over two words, p the atom, no failures
ArfConf ==
    [ConfOf(TRUE, 0, "", "", TRUE, TRUE, FALSE, 1, FALSE, MaxArfLines, 0, {ShortVal}, {FALSE})
        EXCEPT !.words = {"A", "B"}, !.tagNames = {"p"}, !.perrs = {NoErr}]

\* pairs of words counted with ARF, p the atom inside its parent doc, no failures
ArfBigramConf ==
    [ConfOf(TRUE, 0, "", "doc", TRUE, TRUE, FALSE, 1, FALSE, MaxArfLines, 0, {ShortVal}, {FALSE})
        EXCEPT !.ngramSize = 2, !.tagNames = {"p", "doc"}, !.perrs = {NoErr}]

InitArf == conf \in {ArfConf, ArfBigramConf, FullConf} /\ InitRest

SpecArf == InitArf /\ [][Next]_vars

\* the rest of the program stands still while a function is applied on its own
Idle == UNCHANGED <<conf, ctxDone, lib, tte, prs, w, ch, cb, gh>>

\* n-grams over two columns; a column not configured would hold 0
KeyVectors == {<<a, b>> : a, b \in {0, 1, MaxKeyId}}

KeyNgrams == [1..MaxKeyLen -> KeyVectors]

\* the keys ProcToken would look up for two n-grams of one run
ApplyUniqueID ==
    /\ px = NoCall
    /\ \E g1 \in KeyNgrams, g2 \in KeyNgrams :
         px' = [op |-> "UniqueID", g1 |-> g1, g2 |-> g2,
                k1 |-> UniqueIDOf(g1, <<1, 2>>), k2 |-> UniqueIDOf(g2, <<1, 2>>)]
    /\ Idle

InitKeys == conf = FullConf /\ InitRest

SpecKeys == InitKeys /\ [][ApplyUniqueID]_vars

\* the words of a dictionary over two columns, and the n-grams over them
HashDict == <<"a", "ab", "ba">>

HashVectors == {<<x, y>> : x, y \in DOMAIN HashDict}

HashNgrams == UNION {[1..n -> HashVectors] : n \in 1..MaxKeyLen}

\* the hash_id values insertCounts computes for two entries of one map
ApplyGenerateHashID ==
    /\ px = NoCall
    /\ \E g1 \in HashNgrams, g2 \in HashNgrams :
         /\ Len(g1) = Len(g2)
         /\ px' = [op |-> "generateHashID", g1 |-> g1, g2 |-> g2,
                   k1 |-> UniqueIDOf(g1, <<1, 2>>), k2 |-> UniqueIDOf(g2, <<1, 2>>),
                   h1 |-> generateHashIDOf(g1, <<1, 2>>, HashDict),
                   h2 |-> generateHashIDOf(g2, <<1, 2>>, HashDict)]
    /\ Idle

InitHash == conf = FullConf /\ InitRest

SpecHash == InitHash /\ [][ApplyGenerateHashID]_vars

\* the values of doc_id a generator is applied to: up to MaxPrefixLen of the
\* characters e, n and : followed by nothing, a or abc
GenValues ==
    {prefix \o suffix :
        prefix \in UNION {[1..k -> {"e", "n", ":"}] : k \in 0..MaxPrefixLen},
        suffix \in {<<>>, <<"a">>, <<"a", "b", "c">>}}

\* the attributes handed over: doc_id as a string, as a number, or absent
GenArgs ==
    {[doc_id |-> StrV(v)] : v \in GenValues} \cup {[doc_id |-> IntV(7)], EmptyMap}

ApplyIntercorp ==
    /\ px = NoCall
    /\ \E args \in GenArgs :
         px' = [op |-> "intercorp", args |-> args, out |-> intercorp(args, <<"doc_id">>)]
    /\ Idle

InitGen == conf = FullConf /\ InitRest

SpecGen == InitGen /\ [][ApplyIntercorp]_vars

\* ------------------------------------------------------------------ proc.MultiFileScanner

\* a path os.Open cannot open
Missing == [exists |-> FALSE, lines |-> <<>>]

\* the files on disk: each its lines, or Missing
ScanFiles ==
    {[exists |-> TRUE, lines |-> l] : l \in UNION {[1..n -> {"a", "b"}] : n \in 0..MaxScanLines}}
        \cup {Missing}

\* openNextFile skipping a file
openNextFileSkip(m) ==
    LET m1 == [m EXCEPT !.currentFile = FALSE, !.scanner = FALSE, !.currentIndex = @ + 2]
    IN IF m1.currentIndex >= Len(m1.filePaths) THEN [m |-> m1, ok |-> FALSE]
       ELSE IF m1.filePaths[m1.currentIndex + 1] = Missing
       THEN [m |-> [m1 EXCEPT !.err = "open failed"], ok |-> FALSE]
       ELSE [m |-> [m1 EXCEPT !.currentFile = TRUE, !.scanner = TRUE, !.pos = 0], ok |-> TRUE]

\* currentFile and scanner are TRUE when not nil; pos is the line the
\* bufio.Scanner of the current file stands on
openNextFile(m) ==
    LET m1 == IF m.currentFile THEN [m EXCEPT !.currentFile = FALSE, !.scanner = FALSE] ELSE m
        m2 == [m1 EXCEPT !.currentIndex = @ + 1]
    IN IF m2.currentIndex >= Len(m2.filePaths) THEN [m |-> m2, ok |-> FALSE]
       ELSE IF m2.filePaths[m2.currentIndex + 1] = Missing
       THEN [m |-> [m2 EXCEPT !.err = "open failed"], ok |-> FALSE]
       ELSE [m |-> [m2 EXCEPT !.currentFile = TRUE, !.scanner = TRUE, !.pos = 0], ok |-> TRUE]

NewMultiFileScanner(filePaths) ==
    IF Len(filePaths) = 0 THEN [m |-> [nil |-> TRUE], err |-> "at least one file path required"]
    ELSE LET r == openNextFile([filePaths |-> filePaths, currentIndex |-> -1,
                                currentFile |-> FALSE, scanner |-> FALSE, pos |-> 0,
                                err |-> NoErr, nil |-> FALSE])
         IN IF ~r.ok THEN [m |-> [nil |-> TRUE], err |-> r.m.err] ELSE [m |-> r.m, err |-> NoErr]

RECURSIVE Scan(_)
Scan(m) ==
    IF ~m.scanner THEN [m |-> m, ok |-> FALSE]
    ELSE IF m.pos < Len(m.filePaths[m.currentIndex + 1].lines)
    THEN [m |-> [m EXCEPT !.pos = @ + 1], ok |-> TRUE]
    ELSE LET r == openNextFile(m)
         IN IF r.ok THEN Scan(r.m) ELSE [m |-> r.m, ok |-> FALSE]

Text(m) ==
    IF ~m.scanner \/ m.pos = 0 THEN "" ELSE m.filePaths[m.currentIndex + 1].lines[m.pos]

\* a caller makes a scanner over some files
MfsCreate ==
    /\ px = NoCall
    /\ \E k \in 0..MaxScanFiles : \E paths \in [1..k -> ScanFiles] :
         LET r == NewMultiFileScanner(paths)
         IN px' = [op |-> "mfs", paths |-> paths, mfs |-> r.m, err |-> r.err,
                   lines |-> <<>>, scans |-> 0, last |-> TRUE]
    /\ Idle

\* the loop of the caller: for scanner.Scan() { lines = append(lines, scanner.Text()) },
\* and Scan called again after it has returned false
MfsScan ==
    /\ px.op = "mfs"
    /\ ~px.mfs.nil
    /\ px.scans < MaxScanFiles * MaxScanLines + 2
    /\ LET r == Scan(px.mfs)
       IN px' = [px EXCEPT !.mfs = r.m,
                           !.lines = IF r.ok THEN Append(@, Text(r.m)) ELSE @,
                           !.scans = @ + 1,
                           !.last = r.ok]
    /\ Idle

InitScan == conf = FullConf /\ InitRest

NextScan == MfsCreate \/ MfsScan

SpecScan == InitScan /\ [][NextScan]_vars

InitLib == conf \in LibConfs /\ InitRest

SpecLib == InitLib /\ [][Next]_vars

\* ------------------------------------------------------------------ properties

ParentClosed ==
    /\ cb.kind = "close"
    /\ cb.name = conf.atomParentStruct
    /\ cb.accepted

OpenDocAttrs(t) ==
    IF conf.stackStructEval
    THEN IF t.attrAccum.stack # <<>> /\ t.attrAccum.stack[1].elm.name = "doc"
         THEN t.attrAccum.stack[1].elm.attrs ELSE NoAttrs
    ELSE IF "doc" \in DOMAIN t.attrAccum.elms THEN t.attrAccum.elms["doc"].elm.attrs ELSE NoAttrs

\* the stream begin(doc[id=v]), end(doc) has just been processed
DocOnly ==
    /\ ParentClosed
    /\ prs.line = 2
    /\ cb.pre.lineCounter = 0
    /\ cb.pre.errorCounter = 0
    /\ cb.pre.atomCounter = 0
    /\ "id" \in DOMAIN OpenDocAttrs(cb.pre)

RunWrites(d) == d.rows # <<>> \/ d.counts # {} \/ (conf.movingWindow /\ ~d.old)

\* C3: the run is all-or-nothing: when the run has ended and one of its
\* writes was lost (refused, skipped, or never reached because Run gave up),
\* the database holds none of the run's writes.
C3_AllOrNothing ==
    (lib.pc = "done" /\ gh.lost) => ~RunWrites(w.durable)

\* C4: on a fatal error of the run (budget exceeded, cancellation, Writer
\* failure) the transaction is rolled back: the run does not end with the
\* transaction committed.
C4_FatalRollsBack ==
    (lib.pc = "done" /\ gh.fatal \cap {"budget", "cancel", "writer"} # {}) => w.tx # "committed"

\* C5: a Writer failure is fatal: a refused insert is not absorbed as a
\* counted error with a nil result, and a failed prepare is not ignored.
C5_WriterFailureFatal ==
    /\ (cb.kind = "close" /\ cb.execErr # NoErr) =>
            cb.ret # NoErr /\ tte.errorCounter = cb.pre.errorCounter
    /\ ~gh.ignored

Counted == cb.kind # "none" /\ tte.errorCounter # cb.pre.errorCounter

C7_NeverAbort ==
    (gh.recovered /\ lib.pc = "parsefail") =>
        (lib.runErr = ErrStopSignal \/ tte.errorCounter > conf.maxNumErrors)

GeneratorErrs == {ErrNonString, ErrUnknownGenerator, ErrRecovered}

\* C8: a failure of the generator (unknown name, absent or non-string
\* argument, a value too short for intercorp) is handed to the error handler:
\* it is reported, counted against the budget, and the callback returns nil or
\* TooManyParsingErrors, never a panic.
C8_GeneratorFailureCounted ==
    cb.genFailed =>
        /\ cb.ret \in {NoErr, ErrorTooManyParsingErrors}
        /\ tte.errorCounter = cb.pre.errorCounter + 1
        /\ cb.ret = ErrorTooManyParsingErrors <=> tte.errorCounter > conf.maxNumErrors
        /\ \E i \in DOMAIN cb.sent : cb.sent[i].Error \in GeneratorErrs
        /\ lib.pc \notin {"panic", "crashed"}

\* intercorp was given a one-character value and its panic was absorbed
C8_Witness ==
    /\ cb.genFailed
    /\ conf.selfJoin.generatorFn = "intercorp"
    /\ "id" \in DOMAIN OpenDocAttrs(tte)
    /\ OpenDocAttrs(tte)["id"] = ShortVal
    /\ cb.ret = NoErr
    /\ \E i \in DOMAIN cb.sent : cb.sent[i].Error = ErrRecovered

\* C9: once cancellation has been signalled, the next callback of any kind
\* returns the stop signal and leaves the extraction state alone.
C9_CancellationObserved ==
    (cb.kind # "none" /\ cb.cancelled) => (cb.ret = ErrStopSignal /\ tte = cb.pre)

\* C10: after cancellation or a fatal error the background goroutine does not
\* end otherwise than by returning.
C10_ReturnsAfterFatal ==
    (ctxDone \/ gh.fatal # {}) => lib.pc # "crashed"

\* the goroutines are scheduled, the parser reads on, and the consumer keeps
\* receiving from the status channel
SpecLive == InitLib /\ [][Next]_vars /\ WF_vars(Program)

\* after cancellation or a fatal error the status channel is eventually closed
\* and the goroutine has ended, by returning or by a panic
EventuallyEnds ==
    (ctxDone \/ gh.fatal # {}) ~> (ch.closed /\ lib.pc \in {"done", "crashed"})

\* C11: a status event never holds the driver back. Even while the forwarder
\* waits for the consumer to take an event from the status channel, the
\* sub-status channel has room for the next event of the driver.
C11_DriverNeverBlocked ==
    (Parsing /\ ch.fwd[lib.fileIdx].pc = "send") => HasRoom(1)

\* C12: once the Writer has been created, every way out of the library call,
\* an early error return, a failed initialization, a failed or cancelled run,
\* a successful run, has called Close on it.
C12_WriterClosedOnExit ==
    (w.created /\ lib.pc \in {"refused", "done", "crashed"}) => w.closed

\* the files whose per-file step the orchestrator has left behind
FilesDone ==
    {f \in Files : \/ f < lib.fileIdx
                   \/ lib.pc \in {"wait", "return", "done"}
                   \/ lib.pc = "send" /\ lib.after \in {"wait", "return"}}

\* C13: the sub-status channel of a file is closed by the time the
\* orchestrator moves on from that file, whether the extractor could not be
\* constructed, the run failed or the run succeeded.
C13_SubChanClosedBeforeNext ==
    /\ \A f \in FilesDone : ch.sub[f].made => ch.sub[f].closed
    /\ lib.pc = "send" /\ lib.after = "panic" => ch.sub[lib.fileIdx].closed

\* the run of the first file failed, its channel is closed and the second
\* file is being processed
C13_Witness ==
    /\ lib.fileIdx = 2
    /\ lib.pc = "run"
    /\ ch.sub[1].closed
    /\ \E i \in DOMAIN ch.received :
         ch.received[i].File = FileName(1) /\ ch.received[i].Error # NoErr

\* the tags of the input, as far as an error message shows them
Tags == {[name |-> n, attrs |-> a] : n \in StructNames, a \in UNION {TagAttrs(m) : m \in StructNames}}

\* the errors of the accumulators
AccumErrs ==
    {ErrNested(a, b) : a, b \in StructNames}
    \cup {ErrMissingOpen(a) : a \in StructNames}
    \cup {ErrSelfRecursion(getElementHintRepr(a), getElementHintRepr(b)) : a, b \in Tags}

\* the errors handleProcError is given
RecoverableErrs ==
    {ErrParser} \cup AccumErrs \cup GeneratorErrs

\* the events of file f the consumer has received for errors of these kinds
ReceivedErrs(f) ==
    {i \in DOMAIN ch.received :
        ch.received[i].File = FileName(f) /\ ch.received[i].Error \in RecoverableErrs
        /\ ch.received[i].Datetime = "now"}

\* C14: every error given to the error handler produces a status event that
\* carries the time, the number of processed atoms, the line of the error and
\* the error; the forwarder adds the file, and a call that returns has
\* delivered one such event per counted error to the status channel.
C14_ErrorStatusEvent ==
    /\ Counted =>
          \E i \in DOMAIN cb.sent :
             /\ cb.sent[i].Datetime = "now"
             /\ cb.sent[i].ProcessedAtoms = tte.atomCounter
             /\ cb.sent[i].ProcessedLines = prs.line - 1
             /\ cb.sent[i].Error # NoErr
             /\ cb.perr # NoErr => cb.sent[i].Error = cb.perr
    /\ \A f \in Files :
          ch.fwd[f].pc = "send" => ch.fwd[f].upd.File = FileName(f)
    /\ (lib.pc = "done" /\ conf.numFiles = 1 /\ gh.execFails = 0)
          => Cardinality(ReceivedErrs(1)) = tte.errorCounter

\* the call has returned and the consumer has received the event of a parsing
\* error on the second line of the file, inside the first atom
C14_Witness ==
    /\ lib.pc = "done"
    /\ \E i \in DOMAIN ch.received :
        ch.received[i] = [Status(1, 1, ErrParser) EXCEPT !.File = FileName(1)]

\* what ForEachAttr visits: the name and the attributes of each element, in
\* visiting order
Visited(items) == [i \in DOMAIN items |-> [name |-> items[i].elm.name, attrs |-> items[i].elm.attrs]]

Reverse(q) == [i \in DOMAIN q |-> q[Len(q) + 1 - i]]

\* C15: fed a well-nested stream of begin and end calls, the strict
\* accumulator's ForEachAttr visits exactly the structures that are open, with
\* their attributes, the last opened first; in particular the stack is empty
\* once every opened structure has been closed.
C15_StackMirrorsOpenStructures ==
    (conf.stackStructEval /\ gh.nested /\ cb.kind # "none") =>
        /\ Visited(StackVisit(tte.attrAccum.stack)) = Reverse(gh.elems)
        /\ gh.elems = <<>> => tte.attrAccum.stack = <<>>

\* doc and p were opened and closed in nesting order and the stack is empty
\* after the last close
C15_Witness ==
    /\ conf.stackStructEval /\ gh.nested
    /\ prs.line = 4
    /\ cb.kind = "close" /\ cb.accepted /\ cb.name = "doc"
    /\ Len(cb.pre.attrAccum.stack) = 1
    /\ cb.pre.attrAccum.stack[1].elm.attrs = IdAttr(ShortVal)
    /\ cb.pre.atomCounter = 1 /\ Len(w.rows) = 1
    /\ gh.plain /\ tte.errorCounter = 0 /\ prs.tokIdx = 0
    /\ tte.attrAccum.stack = <<>>

\* the last callback was an end call that reached the accumulator
EndCalled == cb.kind = "close" /\ ~cb.cancelled /\ cb.perr = NoErr

\* the last callback was a begin call that reached the accumulator
BeginCalled == cb.kind = "open" /\ ~cb.cancelled /\ cb.perr = NoErr

\* C16: in the strict accumulator, end(name) while the top of the stack has
\* another name fails with the nesting error, which names both the element
\* met and the element on top, and the stack is left as it was.
C16_MismatchLeavesStack ==
    (conf.stackStructEval /\ EndCalled /\ cb.pre.attrAccum.stack # <<>>) =>
        LET top == cb.pre.attrAccum.stack[Len(cb.pre.attrAccum.stack)].elm.name
        IN top # cb.name =>
             /\ tte.attrAccum = cb.pre.attrAccum
             /\ Len(cb.sent) = 1
             /\ cb.sent[1].Error = ErrNested(cb.name, top)
             /\ ("doc" = cb.name /\ top = "p") =>
                   cb.sent[1].Error =
                     "Stack-based processing error. Encountered element: [doc], stack top: [p]"
             /\ Counted

\* after begin(doc), begin(p) the call end(doc) has failed and the stack
\* still holds doc and p
C16_Witness ==
    /\ conf.stackStructEval /\ EndCalled /\ cb.name = "doc"
    /\ prs.line = 3
    /\ Visited(tte.attrAccum.stack) =
          <<[name |-> "doc", attrs |-> NoAttrs], [name |-> "p", attrs |-> NoAttrs]>>
    /\ cb.sent =
          <<Status(1, 2, "Stack-based processing error. Encountered element: [doc], stack top: [p]")>>

\* C17: in the set accumulator, begin of a structure whose name is already
\* open fails with the self-recursion error, which shows both tags, and the
\* element stored under that name stays as it was.
C17_SelfRecursionKeepsElement ==
    (~conf.stackStructEval /\ BeginCalled /\ cb.name \in DOMAIN cb.pre.attrAccum.elms) =>
        /\ tte.attrAccum = cb.pre.attrAccum
        /\ Len(cb.sent) = 1
        /\ \E tag \in Tags :
              /\ tag.name = cb.name
              /\ cb.sent[1].Error =
                   ErrSelfRecursion(getElementHintRepr(tag),
                                    getElementHintRepr(cb.pre.attrAccum.elms[cb.name].elm))
        /\ Counted

\* doc was opened with an id, a second doc without one was turned down, and
\* the stored element still carries the id
C17_Witness ==
    /\ ~conf.stackStructEval /\ BeginCalled /\ cb.name = "doc"
    /\ cb.sent # <<>>
    /\ cb.sent[1].Error = "Self-recursion not allowed, element <doc> in <doc id=\"7\">"
    /\ DOMAIN tte.attrAccum.elms = {"doc"}
    /\ tte.attrAccum.elms["doc"].elm.attrs = IdAttr(ShortVal)
    /\ tte.attrAccum.elms["doc"].lineOpen = 0

\* the columns of the whitelisted attributes of the elements in elms
ColumnsOf(elms) ==
    UNION {{ColName(n, k) : k \in {a \in DOMAIN elms[n].elm.attrs : acceptAttr(conf, n, a)}} :
             n \in DOMAIN elms}

\* C18: in the set accumulator, end(name) takes out the open element of that
\* name and no other, whatever the order of the openings, so that ForEachAttr
\* then yields the attributes of every other open element and none of the
\* closed one; with no element of that name open it fails with the
\* missing-opening error.
C18_SetEndRemovesNamed ==
    (~conf.stackStructEval /\ EndCalled) =>
        LET pre == cb.pre.attrAccum.elms
            post == tte.attrAccum.elms
            yielded == getCurrentAccumAttrs(conf, tte)
        IN IF cb.name \in DOMAIN pre
           THEN /\ DOMAIN post = DOMAIN pre \ {cb.name}
                /\ \A n \in DOMAIN post : post[n] = pre[n]
                /\ DOMAIN yielded = ColumnsOf(post)
                /\ \A n \in DOMAIN post : \A k \in DOMAIN pre[n].elm.attrs :
                      acceptAttr(conf, n, k) => yielded[ColName(n, k)] = StrV(pre[n].elm.attrs[k])
                /\ \A k \in {"id"} : ColName(cb.name, k) \notin DOMAIN yielded
           ELSE /\ post = pre
                /\ Len(cb.sent) = 1
                /\ cb.sent[1].Error = ErrMissingOpen(cb.name)
                /\ Counted

\* p was opened before doc and is closed first: the closing is not nested,
\* and what is yielded afterwards is the id of doc alone
C18_Witness ==
    /\ ~conf.stackStructEval /\ EndCalled /\ cb.name = "p"
    /\ DOMAIN cb.pre.attrAccum.elms = {"doc", "p"}
    /\ cb.pre.attrAccum.elms["p"].lineOpen < cb.pre.attrAccum.elms["doc"].lineOpen
    /\ cb.pre.attrAccum.elms["p"].elm.attrs = IdAttr(LongVal)
    /\ DOMAIN tte.attrAccum.elms = {"doc"}
    /\ getCurrentAccumAttrs(conf, tte) = [col \in {"doc_id"} |-> StrV(ShortVal)]

\* the n-gram of a map entry, as words
NgramWords(entry) ==
    [i \in DOMAIN entry.tokens |->
        IF conf.vertColumns = 0 THEN "" ELSE WordDictGet(tte.valueDict, entry.tokens[i])]

\* C19: the count of every entry of the n-gram map is the number of accepted
\* token events at which the sentence buffer held at least n entries and
\* ended in that n-gram, and every n-gram that so occurred has its one entry:
\* the first occurrence inserts the entry with count 1, each later one adds 1.
C19_CountIsOccurrences ==
    /\ \A k \in DOMAIN tte.colCounts :
          /\ NgramWords(tte.colCounts[k]) \in DOMAIN gh.ngrams
          /\ tte.colCounts[k].count = gh.ngrams[NgramWords(tte.colCounts[k])]
    /\ \A g \in DOMAIN gh.ngrams :
          \E k \in DOMAIN tte.colCounts : NgramWords(tte.colCounts[k]) = g
    /\ Cardinality(DOMAIN tte.colCounts) = Cardinality(DOMAIN gh.ngrams)

\* the tokens A B A B of one buffer gave the bigram A B twice and B A once,
\* and the counts were written after the pass
C19_Witness ==
    /\ conf.ngramSize = 2
    /\ tte.valueDict = <<"A", "B">>
    /\ {<<1, "1 2", 2, "A B">>, <<1, "2 1", 1, "B A">>} \subseteq w.counts
    /\ gh.ngrams = [g \in {<<"A", "B">>, <<"B", "A">>} |-> IF g = <<"A", "B">> THEN 2 ELSE 1]

\* C20: every closure of the atom structure empties the sentence buffer, so
\* an n-gram is only counted once n tokens have been accepted since the last
\* atom closure.
C20_NoNgramAcrossClosure ==
    /\ (cb.kind = "close" /\ cb.accepted /\ cb.name = conf.atomStruct) => tte.currSentence = <<>>
    /\ (cb.kind = "tok" /\ cb.perr = NoErr /\ conf.ngramSize >= 1
            /\ Len(tte.currSentence) >= conf.ngramSize)
          => gh.sinceClose >= conf.ngramSize

\* C21: whatever words have been added to the dictionary so far, adding a
\* word and getting the number back gives the word, two additions give the
\* same number exactly when the words are the same, and no number is zero.
C21_WordDictBijection ==
    /\ \A s1 \in conf.words, s2 \in conf.words :
          LET a1 == WordDictAdd(tte.valueDict, s1)
              a2 == WordDictAdd(a1.dict, s2)
              again == WordDictAdd(a2.dict, s1)
          IN /\ WordDictGet(a1.dict, a1.id) = s1
             /\ WordDictGet(a2.dict, a2.id) = s2
             /\ WordDictGet(a2.dict, a1.id) = s1
             /\ a1.id = a2.id <=> s1 = s2
             /\ again.id = a1.id
             /\ a1.id # 0 /\ a2.id # 0
    /\ \A i \in DOMAIN tte.currSentence :
          conf.vertColumns # 0 => tte.currSentence[i] \in DOMAIN tte.valueDict
    /\ (cb.kind = "tok" /\ cb.perr = NoErr /\ conf.vertColumns # 0) =>
          WordDictGet(tte.valueDict, tte.currSentence[Len(tte.currSentence)]) = cb.name

\* B was added first and A second; the token A just processed has number 2
C21_Witness ==
    /\ tte.valueDict = <<"B", "A">>
    /\ cb.kind = "tok" /\ cb.name = "A"
    /\ tte.currSentence # <<>>
    /\ tte.currSentence[Len(tte.currSentence)] = 2
    /\ Len(tte.currSentence) >= 3

\* C22: two n-grams of one run get the same key exactly when they hold the
\* same dictionary numbers in every column at every position.
C22_KeyInjective ==
    px.op = "UniqueID" => (px.k1 = px.k2 <=> px.g1 = px.g2)

\* two different bigrams whose numbers, written without a separator, would
\* read the same in the first column: 1 11 and 11 1
C22_Witness ==
    /\ px.op = "UniqueID"
    /\ px.g1 = <<<<1, 0>>, <<MaxKeyId, 0>>>>
    /\ px.g2 = <<<<MaxKeyId, 0>>, <<1, 0>>>>
    /\ px.k1 = "1 11 0 0"
    /\ px.k2 = "11 1 0 0"

\* the token indices at which a word occurs in the file read
Occurrences(word) ==
    {prs.events[i].idx : i \in {j \in DOMAIN prs.events :
                                    prs.events[j].kind = "tok" /\ prs.events[j].name = word}}

\* N: the number of tokens of the file
CorpusSize == Cardinality({i \in DOMAIN prs.events : prs.events[i].kind = "tok"})

\* the distance from an occurrence to the next one, the last one wrapping
\* around to the first over a corpus of N tokens
DistanceFrom(occ, i) ==
    LET later == {j \in occ : j > i}
        first == CHOOSE j \in occ : \A m \in occ : j <= m
    IN IF later = {} THEN first + CorpusSize - i
       ELSE (CHOOSE j \in later : \A m \in later : j <= m) - i

RECURSIVE SumMin(_, _, _)
SumMin(v, occ, todo) ==
    IF todo = {} THEN Float(0, 1)
    ELSE LET i == CHOOSE j \in todo : TRUE
         IN FloatAdd(min(v, DistanceFrom(occ, i)), SumMin(v, occ, todo \ {i}))

\* (1/v) * sum of min(v, d_i) to three decimal places, v = N / count
CanonicalARF(word, count) ==
    LET v == FloatDiv(Float(CorpusSize, 1), Float(count, 1))
        occ == Occurrences(word)
    IN Round3(FloatDiv(SumMin(v, occ, occ), v))

EntryWord(entry) == WordDictGet(tte.valueDict, entry.tokens[1])

ArfEntries ==
    IF gh.arfDone /\ conf.ngramSize = 1
    THEN {k \in DOMAIN tte.colCounts : tte.colCounts[k].arf.has} ELSE {}

\* C23: after the second pass and finalize the ARF of every matched entry is
\* (1/v) times the sum of min(v, d_i), to three decimal places, with v = N/count,
\* N the number of tokens and d_i the distances between consecutive
\* occurrences, the last one wrapping around to the first.
C23_ArfIsCanonical ==
    \A k \in ArfEntries :
        tte.colCounts[k].arf.ARF
            = CanonicalARF(EntryWord(tte.colCounts[k]), tte.colCounts[k].count)

EvenlySpaced(word, count) ==
    \A i \in Occurrences(word) : DistanceFrom(Occurrences(word), i) * count = CorpusSize

\* C24: every computed ARF is above 0 and at most the count, and it is the
\* count exactly when the occurrences are evenly spaced over the corpus.
C24_ArfBounds ==
    \A k \in ArfEntries :
        LET e == tte.colCounts[k]
        IN /\ e.arf.ARF.k = "num"
           /\ FloatLess(Float(0, 1), e.arf.ARF)
           /\ ~FloatLess(Float(e.count, 1), e.arf.ARF)
           /\ e.arf.ARF = Float(e.count, 1) <=> EvenlySpaced(EntryWord(e), e.count)

\* C25: an n-gram that occurs once in the corpus gets the final ARF 1.000.
C25_SingletonArfIsOne ==
    \A k \in ArfEntries :
        tte.colCounts[k].count = 1 => tte.colCounts[k].arf.ARF = Float(1, 1)

\* C26: the poscount of an emitted row is the number of accepted tokens
\* processed since the opening that created the row's snapshot: the atom's
\* opening, or the atom-parent's opening for a promoted atom-parent.
C26_PoscountSinceOpening ==
    (cb.kind = "close" /\ cb.rows # <<>>)
        => cb.rows[1]["poscount"] = IntV(IF cb.name = conf.atomStruct THEN gh.sinceOpen.atom
                                         ELSE gh.sinceOpen.parent)

\* C27: an update (append) of a database that does not exist fails: the
\* Writer is never initialized, no transaction is opened and nothing is written.
C27_AppendNeedsDatabase ==
    (conf.appendData /\ ~conf.dbExisted)
        => /\ lib.pc \in {"call", "refused"}
           /\ w.tx = "nil"
           /\ w.rows = <<>> /\ w.counts = {} /\ ~w.del /\ w.commits = 0
           /\ w.durable = InitWriter.durable

C27_Witness ==
    /\ conf.appendData /\ ~conf.dbExisted
    /\ Validate(conf) = NoErr /\ conf.numFiles > 0
    /\ lib.pc = "refused"
    /\ w.created /\ w.tx = "nil"

\* C28 as stated: a create (non-append) extraction fails when the database
\* already exists, so it never gets as far as a transaction.
C28_CreateFailsIfExists ==
    (~conf.appendData /\ conf.dbExisted) => (lib.pc \in {"call", "refused"} /\ w.tx = "nil")

\* C28: a create (non-append) extraction of a valid configuration with files
\* to read is not turned down because the database exists, and once
\* Initialize has opened the transaction the existing data are gone.
C28_CreateReplacesExisting ==
    (~conf.appendData /\ conf.dbExisted /\ Validate(conf) = NoErr /\ conf.numFiles > 0)
        => /\ lib.pc # "refused"
           /\ w.tx # "nil" => ~w.durable.old

C28_Witness ==
    /\ ~conf.appendData /\ conf.dbExisted
    /\ InitWriter.durable.old
    /\ w.tx = "open" /\ ~w.durable.old
    /\ lib.pc = "file"

\* the rules of a configuration
ConfigInvalid(c) ==
    \/ c.atomStruct # "" /\ c.atomStruct \notin DOMAIN c.structures
    \/ c.dateAttr # c.movingWindow
    \/ c.verticalFile /\ c.verticalFiles
    \/ c.ngramSize < 1

\* C29: a configuration that breaks one of the rules is rejected before any
\* work starts: no Writer, no transaction, no parsing, no insert.
C29_InvalidRejected ==
    ConfigInvalid(conf)
        => /\ lib.pc \in {"call", "refused"}
           /\ ~w.created /\ w.tx = "nil"
           /\ prs = NewParser /\ w.rows = <<>> /\ w.counts = {}

\* the arguments of scenario S4: doc_id = "en:abc"
S4Args == [doc_id |-> StrV(<<"e", "n", ":", "a", "b", "c">>)]

\* C30 as stated: intercorp applied to {doc_id: "en:abc"} with the columns
\* [doc_id] returns "abc".
C30_IntercorpGivesAbc ==
    (px.op = "intercorp" /\ px.args = S4Args) => px.out = GenOk(<<"a", "b", "c">>)

\* C30: intercorp applied to {doc_id: "en:abc"} with the columns [doc_id]
\* returns ":abc", and for every string of two or more characters the string
\* without its first two characters.
C30_IntercorpDropsTwo ==
    /\ (px.op = "intercorp" /\ px.args = S4Args) => px.out = GenOk(<<":", "a", "b", "c">>)
    /\ (px.op = "intercorp" /\ px.args # EmptyMap /\ px.args["doc_id"].t = "str"
            /\ Len(px.args["doc_id"].s) >= 2)
          => /\ ~px.out.panic /\ px.out.err = NoErr
             /\ <<px.args["doc_id"].s[1], px.args["doc_id"].s[2]>> \o px.out.ident
                    = px.args["doc_id"].s

C30_Witness ==
    /\ px.op = "intercorp"
    /\ px.args = S4Args
    /\ px.out.ident = <<":", "a", "b", "c">>
    /\ ~px.out.panic

RECURSIVE Concat(_)
Concat(files) == IF files = <<>> THEN <<>> ELSE Head(files).lines \o Concat(Tail(files))

StructuralColumns(row) == DOMAIN row \ {"wordcount", "poscount", "corpus_id", "item_id"}

\* C32: the row emitted when an atom or a promoted atom-parent closes carries
\* the accepted structural attribute values that the accumulator showed when
\* that same element was opened.
C32_RowCarriesOpeningAttrs ==
    (cb.kind = "close" /\ cb.rows # <<>>)
        => \A n \in StructuralColumns(cb.rows[1]) :
              cb.rows[1][n] = IF n \in DOMAIN gh.closedSeen THEN gh.closedSeen[n] ELSE StrV(<<>>)

\* C33: an empty element of the atom structure acts as an opening followed at
\* once by a closing: one row is emitted for it, and the accumulator is
\* afterwards as it was before.
C33_EmptyAtomEmitsRow ==
    (cb.kind = "open" /\ cb.isEmpty /\ cb.accepted /\ cb.name = conf.atomStruct)
        => /\ Len(cb.rows) = 1
           /\ tte.attrAccum = cb.pre.attrAccum

\* an opening of the atom structure met while an atom structure is open
RECURSIVE AtomInsideAtom(_, _, _)
AtomInsideAtom(c, events, depth) ==
    IF events = <<>> THEN FALSE
    ELSE LET ev == Head(events)
         IN CASE ev.kind = "open" /\ ev.name = c.atomStruct ->
                    depth > 0 \/ AtomInsideAtom(c, Tail(events), IF ev.isEmpty THEN depth ELSE depth + 1)
              [] ev.kind = "close" /\ ev.name = c.atomStruct ->
                    AtomInsideAtom(c, Tail(events), IF depth > 0 THEN depth - 1 ELSE 0)
              [] OTHER -> AtomInsideAtom(c, Tail(events), depth)

\* C34: when no atom structure is nested in another atom structure, every
\* n-gram the second pass completes is found among the entries counted by the
\* first pass, and each entry is found exactly as many times as its count.
C34_SecondPassMatchesFirst ==
    (gh.arfDone /\ ~AtomInsideAtom(conf, prs.events, 0))
        => /\ gh.arfWarned = 0
           /\ \A k \in DOMAIN tte.colCounts :
                 k \in DOMAIN gh.arfMatched /\ gh.arfMatched[k] = tte.colCounts[k].count

\* C35: after a run over all the files of the configuration that met no
\* injected failure, the colcounts table holds exactly one row per n-gram
\* that occurred, and the count of the row is the number of its occurrences
\* in the whole run.
C35_OneRowPerNgram ==
    (/\ lib.pc = "done" /\ w.tx = "committed"
     /\ ~ctxDone /\ lib.faults = conf.maxFaults /\ gh.fatal \subseteq {"writer"})
        => /\ \A g \in DOMAIN gh.runNgrams :
                 /\ Cardinality({r \in w.durable.counts : r[4] = JoinSpace(g)}) = 1
                 /\ \A r \in w.durable.counts : r[4] = JoinSpace(g) => r[3] = gh.runNgrams[g]
           /\ Cardinality(w.durable.counts) = Cardinality(DOMAIN gh.runNgrams)

\* C36: once a fatal error has happened (error budget exceeded, cancellation,
\* Writer failure, failed construction of the extractor), no step starts a
\* further input file, inserts a row or a count, or commits.
C36_NothingAfterFatal ==
    [][gh.fatal # {} =>
          /\ \A f \in DOMAIN ch.sub : ch'.sub[f].made = ch.sub[f].made
          /\ Len(w'.rows) <= Len(w.rows)
          /\ w'.counts \subseteq w.counts
          /\ w'.commits = w.commits]_vars

\* the positions of ExtractData at which the extractor of the current file
\* may still send on its sub-status channel
Sending == {"run", "parse", "parsefail", "arf", "counts", "insert"}

\* C37: no channel is closed twice and nothing is sent on a closed channel:
\* a sub-status channel is still open when its file's Run may send and when
\* it comes to be closed, the status channel is still open when it comes to
\* be closed, no sender waits on the closed status channel, and once it is
\* closed every forwarding task that was started has ended.
C37_ChannelsClosedSafely ==
    /\ lib.pc \in Sending \cup {"ranfile"} => ~ch.sub[lib.fileIdx].closed
    /\ lib.pc \in {"return", "panic"} => ~ch.closed
    /\ ch.closed => /\ lib.pc # "send"
                    /\ \A f \in DOMAIN ch.fwd : ch.fwd[f].pc \in {"off", "done"}

\* C38: in the strict accumulator a closing tag met while no structure is
\* open is a reported error charged to the error budget: the callback does
\* not panic, and the error counter grows by one.
C38_EndOnEmptyStackReported ==
    (/\ cb.kind = "close" /\ conf.stackStructEval
     /\ ~cb.cancelled /\ cb.perr = NoErr
     /\ cb.pre.attrAccum.stack = <<>>)
        => /\ cb.ret # Panic
           /\ tte.errorCounter = cb.pre.errorCounter + 1

\* C39: two entries of one n-gram map, which have different keys, get
\* different hash_id values.
C39_HashIdInjective ==
    (px.op = "generateHashID" /\ px.k1 # px.k2) => px.h1 # px.h2

\* the background work of a library call has finished: the goroutine has
\* returned past wg.Wait or an early return, every forwarding task that was
\* started has ended, and the deferred calls have closed the status channel
\* and the Writer
WorkFinished ==
    /\ lib.pc = "done"
    /\ \A f \in DOMAIN ch.fwd : ch.fwd[f].pc \in {"off", "done"}
    /\ ch.closed
    /\ w.closed

\* C40: with a consumer that keeps receiving, every call that returned a
\* status channel eventually finishes its background work, whatever the
\* number of files and whichever of them fail.
C40_BackgroundWorkEnds == (lib.pc = "initialize") ~> WorkFinished

====
